---------------------------- MODULE Spec2Model ----------------------------
(***************************************************************************)
(* Prospector game server (src/prospector/server/server.py).               *)
(*                                                                         *)
(* GameServer keeps every session in the dictionary self.games, the player *)
(* directory in self.players and the move logs in self.recordings, all     *)
(* guarded by the single non-reentrant lock self.lock.  One thread runs    *)
(* handle_client per connection; the connection's player_id is the         *)
(* identity of its thread.  One more thread runs check_inactivity.         *)
(***************************************************************************)
EXTENDS Integers, Sequences, FiniteSets, TLC

(***************************************************************************)
(* Bounds of the model.                                                    *)
(***************************************************************************)
NumClients == 3        \* connections ever accepted (one player_id each)
MaxGames   == 1        \* create_game calls that succeed
MaxTicks   == 1        \* steps of the wall clock
MaxSeed    == 0        \* outcomes of the random land draw that are explored
TickStep   == 61       \* seconds the wall clock advances in one step

(***************************************************************************)
(* Program constants.                                                      *)
(***************************************************************************)
MinGridSize       == 2     \* create_game: grid_size < 2 is rejected
MaxGridSize       == 10    \* create_game: grid_size > 10 is rejected
MinPlayers        == 2     \* create_game: num_players < 2 is rejected
MaxPlayers        == 4     \* create_game: num_players > 4 is rejected
InactivityTimeout == 60    \* check_inactivity: inactivity_timeout

NoOwner  == 0              \* cell["owner"] = None
NoWinner == 0              \* game["winner"] = None
Draw     == -1             \* game["winner"] = "draw"
NoGameId == 0              \* a missing or None game_id
Sweeper  == 0              \* the thread running check_inactivity
Free     == -1             \* self.lock is not held

Threads   == 1..NumClients
GameIds   == 1..MaxGames
LandSeeds == 0..MaxSeed

Orientations == <<"north", "east", "south", "west">>
OrientationSet == {Orientations[i] : i \in 1..4}

(***************************************************************************)
(* Inputs the requests are drawn from.                                     *)
(***************************************************************************)
GridSizeInputs    == {1, 2, 11}
NumPlayersInputs  == {1, 2, 3, 5}
GameIdInputs      == {NoGameId} \cup GameIds
\* <<position, orientation>> of a place_fence request: the four sides of
\* cell (0,0), the west side of cell (1,0), and one request for each way a
\* request can be malformed
WellFormedMoves == ({<<0, 0>>} \X OrientationSet) \cup {<< <<1, 0>>, "west" >>}

MoveInputs ==
    WellFormedMoves
    \cup {<< <<>>, "north" >>, << <<2, 0>>, "north" >>, << <<0, 0>>, "up" >>}

\* the place_fence requests of SpecLock
LockMoveInputs == {<< <<0, 0>>, "north" >>, << <<0, 0>>, "west" >>, << <<>>, "north" >>}

VARIABLES
    games,        \* self.games: game_id -> game state
    players,      \* self.players: player_id -> win/loss/draw tallies
    recordings,   \* self.recordings: game_id -> move log
    lock,         \* self.lock: the thread holding it, or Free
    pc,           \* position of every thread
    conn,         \* handle_client's local game_id, per connection
    now,          \* time.time()
    current_time, \* check_inactivity's local current_time
    inbox,        \* the request a connection's handler is working on
    last          \* the response most recently returned by a handler

vars == <<games, players, recordings, lock, pc, conn, now, current_time, inbox, last>>

(***************************************************************************)
(* Grid Model                                                              *)
(***************************************************************************)
Cells(size) == (0..(size - 1)) \X (0..(size - 1))

\* random.choices(["regular","copper","gold"]) for the cell at (x,y): the
\* draw is one of the sequences indexed by seed.
LandType(x, y, seed) ==
    LET k == (x + y + seed + 2) % 3
    IN  IF k = 0 THEN "regular" ELSE IF k = 1 THEN "copper" ELSE "gold"

LandValue(type) ==
    IF type = "copper" THEN 2 ELSE IF type = "gold" THEN 3 ELSE 1

initialize_grid(size, seed) ==
    [c \in Cells(size) |->
        [north |-> FALSE, east |-> FALSE, south |-> FALSE, west |-> FALSE,
         owner |-> NoOwner,
         type  |-> LandType(c[1], c[2], seed),
         value |-> LandValue(LandType(c[1], c[2], seed))]]

AllFences(cell) == cell.north /\ cell.east /\ cell.south /\ cell.west

\* variant: the west fence is not looked at
check_land_enclosed_three(grid, x, y) ==
    /\ grid[<<x, y>>].north /\ grid[<<x, y>>].east /\ grid[<<x, y>>].south
    /\ grid[<<x, y>>].owner = NoOwner

check_land_enclosed(grid, x, y) ==
    AllFences(grid[<<x, y>>]) /\ grid[<<x, y>>].owner = NoOwner

\* variant: the session is over when every cell has an owner
check_game_over_owned(game) ==
    \A c \in DOMAIN game.grid : game.grid[c].owner # NoOwner

check_game_over(game) ==
    \A c \in DOMAIN game.grid : AllFences(game.grid[c])

\* variant: the named flag only, the adjacent cell's flag is forgotten
SetFenceUnmirrored(grid, size, x, y, o) == [grid EXCEPT ![<<x, y>>][o] = TRUE]

\* place_fence lines 300-311: the named flag, then the adjacent cell's flag.
SetFence(grid, size, x, y, o) ==
    LET placed == [grid EXCEPT ![<<x, y>>][o] = TRUE]
    IN  IF o = "north" /\ y > 0
        THEN [placed EXCEPT ![<<x, y - 1>>].south = TRUE]
        ELSE IF o = "east" /\ x < size - 1
        THEN [placed EXCEPT ![<<x + 1, y>>].west = TRUE]
        ELSE IF o = "south" /\ y < size - 1
        THEN [placed EXCEPT ![<<x, y + 1>>].north = TRUE]
        ELSE IF o = "west" /\ x > 0
        THEN [placed EXCEPT ![<<x - 1, y>>].east = TRUE]
        ELSE placed

(***************************************************************************)
(* Helpers on dictionaries and lists                                       *)
(***************************************************************************)
Put(dict, key, value) ==
    [k \in DOMAIN dict \cup {key} |-> IF k = key THEN value ELSE dict[k]]

Del(dict, key) == [k \in DOMAIN dict \ {key} |-> dict[k]]

\* list.pop(i) for a 1-based position i
Pop(list, i) == [k \in 1..(Len(list) - 1) |-> IF k < i THEN list[k] ELSE list[k + 1]]

Seated(game, pid) == \E i \in 1..Len(game.players) : game.players[i].id = pid

\* the position of pid in the roster (enumerate ... break), 0 when absent
PlayerIndex(game, pid) ==
    IF Seated(game, pid)
    THEN CHOOSE i \in 1..Len(game.players) :
            /\ game.players[i].id = pid
            /\ \A k \in 1..(i - 1) : game.players[k].id # pid
    ELSE 0

NewStats == [wins |-> 0, losses |-> 0, draws |-> 0]

Response(op, status, message, claimed) ==
    [op |-> op, status |-> status, message |-> message, land_claimed |-> claimed]

\* a place_fence request is <<game_id, position, orientation>>, a leave_game
\* request is <<game_id>>
NoRequest == <<>>

NoResponse == Response("none", "none", "", FALSE)

Error(op, message) == Response(op, "error", message, FALSE)

Success(op, message) == Response(op, "success", message, FALSE)

\* uuid.uuid4(): an identifier no session ever had
FreshGameId == CHOOSE g \in GameIds \ DOMAIN recordings :
                  \A h \in GameIds \ DOMAIN recordings : g <= h

(***************************************************************************)
(* The initial state: GameServer.__init__ and start().                     *)
(***************************************************************************)
Init ==
    /\ games = <<>>
    /\ players = <<>>
    /\ recordings = <<>>
    /\ lock = Free
    /\ pc = [t \in Threads \cup {Sweeper} |-> IF t = Sweeper THEN "sleep" ELSE "recv"]
    /\ conn = [t \in Threads |-> NoGameId]
    /\ now = 0
    /\ current_time = 0
    /\ inbox = [t \in Threads |-> NoRequest]
    /\ last = NoResponse

(***************************************************************************)
(* create_game                                                             *)
(***************************************************************************)
\* lines 172-189: the session a valid create_game stores
NewGame(t, grid_size, num_players, seed, time) ==
    [grid_size |-> grid_size,
     num_players |-> num_players,
     players |-> <<[id |-> t, score |-> 0]>>,
     current_player_index |-> 0,
     grid |-> initialize_grid(grid_size, seed),
     game_over |-> FALSE,
     winner |-> NoWinner,
     last_activity |-> time,
     turn_start_time |-> time]

\* lines 195-201 and 243-249: the directory entry is created when absent
Registered(stats, t) ==
    IF t \notin DOMAIN stats THEN Put(stats, t, NewStats) ELSE stats

\* variant: the upper limits of create_game are not checked
create_game_unbounded(t, grid_size, num_players, seed) ==
    IF grid_size < MinGridSize
    THEN /\ last' = Error("create_game", "Invalid grid size (2-10)")
         /\ UNCHANGED <<games, players, recordings, conn>>
    ELSE IF num_players < MinPlayers
    THEN /\ last' = Error("create_game", "Invalid number of players (2-4)")
         /\ UNCHANGED <<games, players, recordings, conn>>
    ELSE LET game_id == FreshGameId
         IN  /\ games' = Put(games, game_id,
                             NewGame(t, grid_size, num_players, seed, now))
             /\ players' = Registered(players, t)
             /\ recordings' = Put(recordings, game_id, <<>>)
             /\ conn' = [conn EXCEPT ![t] = game_id]
             /\ last' = Success("create_game", "Game created successfully")

create_game(t, grid_size, num_players, seed) ==
    IF grid_size < MinGridSize \/ grid_size > MaxGridSize
    THEN /\ last' = Error("create_game", "Invalid grid size (2-10)")
         /\ UNCHANGED <<games, players, recordings, conn>>
    ELSE IF num_players < MinPlayers \/ num_players > MaxPlayers
    THEN /\ last' = Error("create_game", "Invalid number of players (2-4)")
         /\ UNCHANGED <<games, players, recordings, conn>>
    ELSE LET game_id == FreshGameId
         IN  /\ games' = Put(games, game_id,
                             NewGame(t, grid_size, num_players, seed, now))
             /\ players' = Registered(players, t)
             /\ recordings' = Put(recordings, game_id, <<>>)
             /\ conn' = [conn EXCEPT ![t] = game_id]
             /\ last' = Success("create_game", "Game created successfully")

(***************************************************************************)
(* join_game                                                               *)
(***************************************************************************)
\* lines 233-240: the session after t has taken a seat
Joined(game, t, time) ==
    [game EXCEPT
        !.players = Append(game.players, [id |-> t, score |-> 0]),
        !.last_activity = time]

\* variant: the number of seats is not checked
join_game_no_capacity(t, game_id) ==
    IF game_id = NoGameId \/ game_id \notin DOMAIN games
    THEN /\ last' = Error("join_game", "Invalid game ID")
         /\ UNCHANGED <<games, players, recordings, conn>>
    ELSE LET game == games[game_id]
         IN  IF Seated(game, t)
             THEN /\ last' = Error("join_game", "Player already in game")
                  /\ UNCHANGED <<games, players, recordings, conn>>
             ELSE /\ games' = [games EXCEPT ![game_id] = Joined(game, t, now)]
                  /\ players' = Registered(players, t)
                  /\ conn' = [conn EXCEPT ![t] = game_id]
                  /\ last' = Success("join_game", "Game joined successfully")
                  /\ UNCHANGED recordings

join_game(t, game_id) ==
    IF game_id = NoGameId \/ game_id \notin DOMAIN games
    THEN /\ last' = Error("join_game", "Invalid game ID")
         /\ UNCHANGED <<games, players, recordings, conn>>
    ELSE LET game == games[game_id]
         IN  IF Len(game.players) >= game.num_players
             THEN /\ last' = Error("join_game", "Game is full")
                  /\ UNCHANGED <<games, players, recordings, conn>>
             ELSE IF Seated(game, t)
             THEN /\ last' = Error("join_game", "Player already in game")
                  /\ UNCHANGED <<games, players, recordings, conn>>
             ELSE /\ games' = [games EXCEPT ![game_id] = Joined(game, t, now)]
                  /\ players' = Registered(players, t)
                  /\ conn' = [conn EXCEPT ![t] = game_id]
                  /\ last' = Success("join_game", "Game joined successfully")
                  /\ UNCHANGED recordings

(***************************************************************************)
(* end_game: the winner and the directory tallies                          *)
(***************************************************************************)
MaxScore(game) ==
    CHOOSE m \in {game.players[i].score : i \in 1..Len(game.players)} :
        \A i \in 1..Len(game.players) : game.players[i].score <= m

\* winners = [p["id"] for p in game["players"] if p["score"] == max_score]
Winners(game) ==
    {i \in 1..Len(game.players) : game.players[i].score = MaxScore(game)}

\* variant: on a tie the first of the top scorers is declared the winner
end_game_state_first(game) ==
    [game EXCEPT
        !.game_over = TRUE,
        !.winner = game.players[CHOOSE i \in Winners(game) :
                                   \A k \in Winners(game) : i <= k].id]

end_game_state(game) ==
    [game EXCEPT
        !.game_over = TRUE,
        !.winner = IF Cardinality(Winners(game)) = 1
                   THEN game.players[CHOOSE i \in Winners(game) : TRUE].id
                   ELSE Draw]

end_game_stats(game, stats) ==
    LET one == Cardinality(Winners(game)) = 1
        winner_id == game.players[CHOOSE i \in Winners(game) : TRUE].id
    IN  [p \in DOMAIN stats |->
            IF ~Seated(game, p) THEN stats[p]
            ELSE IF ~one THEN [stats[p] EXCEPT !.draws = @ + 1]
            ELSE IF p = winner_id THEN [stats[p] EXCEPT !.wins = @ + 1]
            ELSE [stats[p] EXCEPT !.losses = @ + 1]]

(***************************************************************************)
(* place_fence                                                             *)
(***************************************************************************)
CurrentPlayer(game) == game.players[game.current_player_index + 1]

\* variant: the turn is not checked
move_error_any_turn(game, t, position, orientation) ==
    IF game.game_over THEN "Game is over"
    ELSE IF position = <<>> THEN "Invalid position"
    ELSE IF \/ position[1] < 0 \/ position[1] >= game.grid_size
            \/ position[2] < 0 \/ position[2] >= game.grid_size
         THEN "Position out of bounds"
    ELSE IF orientation \notin OrientationSet THEN "Invalid orientation"
    ELSE IF game.grid[position][orientation] THEN "Fence already exists"
    ELSE ""

\* variant: the turn is checked after the request's fields
move_error_turn_last(game, t, position, orientation) ==
    IF position = <<>> THEN "Invalid position"
    ELSE IF \/ position[1] < 0 \/ position[1] >= game.grid_size
            \/ position[2] < 0 \/ position[2] >= game.grid_size
         THEN "Position out of bounds"
    ELSE IF orientation \notin OrientationSet THEN "Invalid orientation"
    ELSE IF CurrentPlayer(game).id # t THEN "Not your turn"
    ELSE IF game.game_over THEN "Game is over"
    ELSE IF game.grid[position][orientation] THEN "Fence already exists"
    ELSE ""

\* variant: a set flag is not refused
move_error_no_conflict(game, t, position, orientation) ==
    IF CurrentPlayer(game).id # t THEN "Not your turn"
    ELSE IF game.game_over THEN "Game is over"
    ELSE IF position = <<>> THEN "Invalid position"
    ELSE IF \/ position[1] < 0 \/ position[1] >= game.grid_size
            \/ position[2] < 0 \/ position[2] >= game.grid_size
         THEN "Position out of bounds"
    ELSE IF orientation \notin OrientationSet THEN "Invalid orientation"
    ELSE ""

\* lines 270-298: the message of the first check that fails, "" when none does
move_error(game, t, position, orientation) ==
    IF CurrentPlayer(game).id # t THEN "Not your turn"
    ELSE IF game.game_over THEN "Game is over"
    ELSE IF position = <<>> THEN "Invalid position"
    ELSE IF \/ position[1] < 0 \/ position[1] >= game.grid_size
            \/ position[2] < 0 \/ position[2] >= game.grid_size
         THEN "Position out of bounds"
    ELSE IF orientation \notin OrientationSet THEN "Invalid orientation"
    ELSE IF game.grid[position][orientation] THEN "Fence already exists"
    ELSE ""

\* lines 265-298
place_fence_error(t, game_id, position, orientation) ==
    IF game_id = NoGameId \/ game_id \notin DOMAIN games THEN "Invalid game ID"
    ELSE move_error(games[game_id], t, position, orientation)

\* variant: every cell is worth one point
ClaimLandFlat(game, x, y) ==
    [game EXCEPT
        !.grid[<<x, y>>].owner = CurrentPlayer(game).id,
        !.players[game.current_player_index + 1].score = @ + 1]

\* variant: the owner is recorded and nobody is credited
ClaimLandUncredited(game, x, y) ==
    [game EXCEPT !.grid[<<x, y>>].owner = CurrentPlayer(game).id]

\* lines 316-320: the current player becomes the owner and is credited
ClaimLand(game, x, y) ==
    [game EXCEPT
        !.grid[<<x, y>>].owner = CurrentPlayer(game).id,
        !.players[game.current_player_index + 1].score =
            @ + game.grid[<<x, y>>].value]

\* variant: the turn passes on after a claim too
NextTurnAlways(game, land_claimed) ==
    (game.current_player_index + 1) % Len(game.players)

\* variant: the turn index is not wrapped
NextTurnUnwrapped(game, land_claimed) ==
    IF ~land_claimed
    THEN game.current_player_index + 1
    ELSE game.current_player_index

\* lines 326-328
NextTurn(game, land_claimed) ==
    IF ~land_claimed
    THEN (game.current_player_index + 1) % Len(game.players)
    ELSE game.current_player_index

\* variant: the entry is put at the head of the log
RecordedFirst(log, t, x, y, orientation, land_claimed) ==
    <<[player_id |-> t, x |-> x, y |-> y,
       orientation |-> orientation, land_claimed |-> land_claimed]>> \o log

\* variant: the entry never says that land was claimed
RecordedUnclaimed(log, t, x, y, orientation, land_claimed) ==
    Append(log, [player_id |-> t, x |-> x, y |-> y,
                 orientation |-> orientation, land_claimed |-> FALSE])

\* lines 333-344, without the timestamp and the player's name
Recorded(log, t, x, y, orientation, land_claimed) ==
    Append(log, [player_id |-> t, x |-> x, y |-> y,
                 orientation |-> orientation, land_claimed |-> land_claimed])

\* lines 313-314: whether the fence just placed at (x,y) claims the cell
LandClaimed(game, x, y, orientation) ==
    check_land_enclosed(SetFence(game.grid, game.grid_size, x, y, orientation), x, y)

\* lines 300-331: the session after an accepted move made at the given time
Placement(game, x, y, orientation, time) ==
    LET fenced == [game EXCEPT
                     !.grid = SetFence(game.grid, game.grid_size, x, y, orientation)]
        land_claimed == check_land_enclosed(fenced.grid, x, y)
        claimed == IF land_claimed THEN ClaimLand(fenced, x, y) ELSE fenced
    IN  [claimed EXCEPT
            !.last_activity = time,
            !.current_player_index = NextTurn(claimed, land_claimed),
            !.turn_start_time = time]

place_fence(t, game_id, position, orientation) ==
    LET error == place_fence_error(t, game_id, position, orientation) IN
    IF error # ""
    THEN /\ last' = Error("place_fence", error)
         /\ UNCHANGED <<games, players, recordings, conn>>
    ELSE
    LET game == games[game_id]
        x == position[1]
        y == position[2]
        land_claimed == LandClaimed(game, x, y, orientation)
        moved == Placement(game, x, y, orientation, now)
        log == IF game_id \notin DOMAIN recordings THEN <<>> ELSE recordings[game_id]
        over == check_game_over(moved)
    IN  /\ recordings' = Put(recordings, game_id,
                             Recorded(log, t, x, y, orientation, land_claimed))
        /\ games' = [games EXCEPT ![game_id] =
                        IF over THEN end_game_state(moved) ELSE moved]
        /\ players' = IF over THEN end_game_stats(moved, players) ELSE players
        /\ last' = Response("place_fence", "success", "Fence placed successfully",
                            land_claimed)
        /\ UNCHANGED conn

(***************************************************************************)
(* handle_player_disconnect, from its `with self.lock:` on                 *)
(***************************************************************************)
\* variant: the last player left is not declared the winner
handle_player_disconnect_no_forfeit(t, game_id) ==
    LET op == "handle_player_disconnect" IN
    IF game_id \notin DOMAIN games
    THEN /\ last' = Error(op, "Game not found")
         /\ UNCHANGED <<games, players, recordings>>
    ELSE
    LET game == games[game_id]
        player_index == PlayerIndex(game, t)
    IN
    IF player_index = 0
    THEN /\ last' = Error(op, "Player not in game")
         /\ UNCHANGED <<games, players, recordings>>
    ELSE IF Len(game.players) <= 1
    THEN /\ games' = Del(games, game_id)
         /\ last' = Success(op, "Game removed")
         /\ UNCHANGED <<players, recordings>>
    ELSE
    LET roster == Pop(game.players, player_index)
        index == IF game.current_player_index >= Len(roster)
                 THEN 0 ELSE game.current_player_index
        left == [game EXCEPT !.players = roster, !.current_player_index = index]
    IN  /\ players' = [p \in DOMAIN players |->
                          IF p # t /\ Seated(game, p)
                          THEN [players[p] EXCEPT !.wins = @ + 1]
                          ELSE IF p = t
                          THEN [players[p] EXCEPT !.losses = @ + 1]
                          ELSE players[p]]
        /\ games' = [games EXCEPT ![game_id] = left]
        /\ last' = Success(op, "Player left game")
        /\ UNCHANGED recordings

\* variant: the cells of the player who leaves go back to nobody
handle_player_disconnect_release(t, game_id) ==
    LET op == "handle_player_disconnect" IN
    IF game_id \notin DOMAIN games
    THEN /\ last' = Error(op, "Game not found")
         /\ UNCHANGED <<games, players, recordings>>
    ELSE
    LET game == games[game_id]
        player_index == PlayerIndex(game, t)
    IN
    IF player_index = 0
    THEN /\ last' = Error(op, "Player not in game")
         /\ UNCHANGED <<games, players, recordings>>
    ELSE IF Len(game.players) <= 1
    THEN /\ games' = Del(games, game_id)
         /\ last' = Success(op, "Game removed")
         /\ UNCHANGED <<players, recordings>>
    ELSE
    LET roster == Pop(game.players, player_index)
        index == IF game.current_player_index >= Len(roster)
                 THEN 0 ELSE game.current_player_index
        grid == [c \in DOMAIN game.grid |->
                    IF game.grid[c].owner = t
                    THEN [game.grid[c] EXCEPT !.owner = NoOwner]
                    ELSE game.grid[c]]
        left == [game EXCEPT !.players = roster, !.current_player_index = index,
                             !.grid = grid]
    IN  /\ players' = [p \in DOMAIN players |->
                          IF p # t /\ Seated(game, p)
                          THEN [players[p] EXCEPT !.wins = @ + 1]
                          ELSE IF p = t
                          THEN [players[p] EXCEPT !.losses = @ + 1]
                          ELSE players[p]]
        /\ games' = [games EXCEPT ![game_id] =
                        IF Len(roster) = 1
                        THEN [left EXCEPT !.game_over = TRUE,
                                          !.winner = roster[1].id]
                        ELSE left]
        /\ last' = Success(op, "Player left game")
        /\ UNCHANGED recordings

handle_player_disconnect(t, game_id) ==
    LET op == "handle_player_disconnect" IN
    IF game_id \notin DOMAIN games
    THEN /\ last' = Error(op, "Game not found")
         /\ UNCHANGED <<games, players, recordings>>
    ELSE
    LET game == games[game_id]
        player_index == PlayerIndex(game, t)
    IN
    IF player_index = 0
    THEN /\ last' = Error(op, "Player not in game")
         /\ UNCHANGED <<games, players, recordings>>
    ELSE IF Len(game.players) <= 1
    THEN /\ games' = Del(games, game_id)
         /\ last' = Success(op, "Game removed")
         /\ UNCHANGED <<players, recordings>>
    ELSE
    LET roster == Pop(game.players, player_index)
        index == IF game.current_player_index >= Len(roster)
                 THEN 0 ELSE game.current_player_index
        left == [game EXCEPT !.players = roster, !.current_player_index = index]
    IN  /\ players' = [p \in DOMAIN players |->
                          IF p # t /\ Seated(game, p)
                          THEN [players[p] EXCEPT !.wins = @ + 1]
                          ELSE IF p = t
                          THEN [players[p] EXCEPT !.losses = @ + 1]
                          ELSE players[p]]
        /\ games' = [games EXCEPT ![game_id] =
                        IF Len(roster) = 1
                        THEN [left EXCEPT !.game_over = TRUE,
                                          !.winner = roster[1].id]
                        ELSE left]
        /\ last' = Success(op, "Player left game")
        /\ UNCHANGED recordings

(***************************************************************************)
(* check_inactivity: one pass of the sweep over self.games                 *)
(***************************************************************************)
\* variant: the sweep does not skip the sessions that are over
TimedOutAnyState(game, time) == time - game.turn_start_time > InactivityTimeout

TimedOut(game, time) ==
    /\ ~game.game_over
    /\ time - game.turn_start_time > InactivityTimeout

\* variant: the turn moves on and the turn clock keeps its old start
AdvancedStale(game, time) ==
    [game EXCEPT
        !.current_player_index = (game.current_player_index + 1) % Len(game.players),
        !.last_activity = time]

\* lines 531-539: the turn moves on and the clock is rearmed
Advanced(game, time) ==
    [game EXCEPT
        !.current_player_index = (game.current_player_index + 1) % Len(game.players),
        !.turn_start_time = time,
        !.last_activity = time]

check_inactivity(time) ==
    games' = [g \in DOMAIN games |->
                IF TimedOut(games[g], time) THEN Advanced(games[g], time)
                ELSE games[g]]

(***************************************************************************)
(* Spec: every handler runs from `with self.lock:` to its return in one    *)
(* step.  A connection thread is in handle_client's receive loop ("recv"), *)
(* about to send the response it got ("send"), stuck inside a handler      *)
(* ("blocked"), about to close its socket ("closing") or gone ("closed").  *)
(* The response is sent before the next request is taken up.               *)
(***************************************************************************)
Serving(t) == pc[t] = "recv" /\ lock = Free /\ last = NoResponse

\* A player_id is a uuid4 drawn per connection: the connections are numbered
\* in the order in which they enter the directory self.players.
Numbered(t) == players' # players => t = Cardinality(DOMAIN players) + 1

Returned(t) == pc' = [pc EXCEPT ![t] = "send"]

CreateGame(t) ==
    /\ Serving(t)
    /\ \E grid_size \in GridSizeInputs, num_players \in NumPlayersInputs,
          seed \in LandSeeds :
          /\ GameIds \ DOMAIN recordings # {}
          /\ create_game(t, grid_size, num_players, seed)
    /\ Numbered(t)
    /\ Returned(t)
    /\ UNCHANGED <<lock, now, current_time, inbox>>

JoinGame(t) ==
    /\ Serving(t)
    /\ \E game_id \in GameIdInputs : join_game(t, game_id)
    /\ Numbered(t)
    /\ Returned(t)
    /\ UNCHANGED <<lock, now, current_time, inbox>>

PlaceFence(t) ==
    /\ Serving(t)
    /\ \E game_id \in GameIdInputs, move \in MoveInputs :
          place_fence(t, game_id, move[1], move[2])
    /\ Returned(t)
    /\ UNCHANGED <<lock, now, current_time, inbox>>

\* leave_game takes self.lock and, for a known game_id, calls
\* handle_player_disconnect, whose own `with self.lock:` waits for the lock
\* the caller holds: threading.Lock is not reentrant.
LeaveGame(t) ==
    /\ Serving(t)
    /\ \E game_id \in GameIdInputs :
          IF game_id = NoGameId \/ game_id \notin DOMAIN games
          THEN /\ last' = Error("leave_game", "Invalid game ID")
               /\ Returned(t)
               /\ UNCHANGED lock
          ELSE /\ lock' = t
               /\ pc' = [pc EXCEPT ![t] = "blocked"]
               /\ UNCHANGED last
    /\ UNCHANGED <<games, players, recordings, conn, now, current_time, inbox>>

\* client_socket.send(encode_message(response))
Send(t) ==
    /\ pc[t] = "send"
    /\ pc' = [pc EXCEPT ![t] = "recv"]
    /\ last' = NoResponse
    /\ UNCHANGED <<games, players, recordings, lock, conn, now, current_time, inbox>>

\* handle_client's finally clause when recv returns no data
Disconnect(t) ==
    /\ pc[t] = "recv"
    /\ last = NoResponse
    /\ IF conn[t] # NoGameId /\ conn[t] \in DOMAIN games
       THEN /\ lock = Free
            /\ handle_player_disconnect(t, conn[t])
       ELSE UNCHANGED <<games, players, recordings, last>>
    /\ pc' = [pc EXCEPT ![t] = "closing"]
    /\ UNCHANGED <<lock, conn, now, current_time, inbox>>

\* client_socket.close(): the value handle_player_disconnect returned is dropped
Close(t) ==
    /\ pc[t] = "closing"
    /\ pc' = [pc EXCEPT ![t] = "closed"]
    /\ last' = NoResponse
    /\ UNCHANGED <<games, players, recordings, lock, conn, now, current_time, inbox>>

Sweep ==
    /\ pc[Sweeper] = "sleep"
    /\ lock = Free
    /\ last = NoResponse
    /\ \E g \in DOMAIN games : TimedOut(games[g], now)
    /\ check_inactivity(now)
    /\ UNCHANGED <<players, recordings, lock, pc, conn, now, current_time, inbox, last>>

Tick ==
    /\ last = NoResponse
    /\ now + TickStep <= MaxTicks * TickStep
    /\ now' = now + TickStep
    /\ UNCHANGED <<games, players, recordings, lock, pc, conn, current_time, inbox, last>>

Next ==
    \/ \E t \in Threads : CreateGame(t)
    \/ \E t \in Threads : JoinGame(t)
    \/ \E t \in Threads : PlaceFence(t)
    \/ \E t \in Threads : LeaveGame(t)
    \/ \E t \in Threads : Send(t)
    \/ \E t \in Threads : Disconnect(t)
    \/ \E t \in Threads : Close(t)
    \/ Sweep
    \/ Tick

Spec == Init /\ [][Next]_vars

(***************************************************************************)
(* SpecLock: the same handlers with `with self.lock:` as a step of its     *)
(* own.  A thread that has taken the lock for handler h is at "in_h"; the  *)
(* handler's body, the release of the lock and the return are one step.    *)
(* A thread whose acquire step is not enabled is waiting for the lock.     *)
(***************************************************************************)
Handlers == {"create_game", "join_game", "place_fence", "leave_game"}

\* variant: the lock is taken without waiting for it
acquire_unguarded(t) == lock' = t

\* threading.Lock.acquire(): blocks until the lock is free
acquire(t) == lock = Free /\ lock' = t

release(t) == lock' = Free

\* process_message dispatches to handler h, which enters `with self.lock:`
LockAcquire(t) ==
    /\ pc[t] = "recv"
    /\ last = NoResponse
    /\ acquire(t)
    /\ \E h \in Handlers : pc' = [pc EXCEPT ![t] = "in_" \o h]
    /\ UNCHANGED <<games, players, recordings, conn, now, current_time, inbox, last>>

LockCreateGame(t) ==
    /\ pc[t] = "in_create_game"
    /\ \E grid_size \in GridSizeInputs, num_players \in NumPlayersInputs,
          seed \in LandSeeds :
          /\ GameIds \ DOMAIN recordings # {}
          /\ create_game(t, grid_size, num_players, seed)
    /\ Numbered(t)
    /\ release(t)
    /\ Returned(t)
    /\ UNCHANGED <<now, current_time, inbox>>

LockJoinGame(t) ==
    /\ pc[t] = "in_join_game"
    /\ \E game_id \in GameIdInputs : join_game(t, game_id)
    /\ Numbered(t)
    /\ release(t)
    /\ Returned(t)
    /\ UNCHANGED <<now, current_time, inbox>>

LockPlaceFence(t) ==
    /\ pc[t] = "in_place_fence"
    /\ \E game_id \in GameIdInputs, move \in LockMoveInputs :
          place_fence(t, game_id, move[1], move[2])
    /\ release(t)
    /\ Returned(t)
    /\ UNCHANGED <<now, current_time, inbox>>

\* leave_game lines 360-367: with the lock held, an unknown game_id returns;
\* a known one calls handle_player_disconnect, which starts by acquiring
\* self.lock again
LockLeaveGame(t) ==
    /\ pc[t] = "in_leave_game"
    /\ \E game_id \in GameIdInputs :
          IF game_id = NoGameId \/ game_id \notin DOMAIN games
          THEN /\ last' = Error("leave_game", "Invalid game ID")
               /\ release(t)
               /\ Returned(t)
               /\ UNCHANGED inbox
          ELSE /\ pc' = [pc EXCEPT ![t] = "leave_acquire"]
               /\ inbox' = [inbox EXCEPT ![t] = <<game_id>>]
               /\ UNCHANGED <<lock, last>>
    /\ UNCHANGED <<games, players, recordings, conn, now, current_time>>

\* handle_client lines 120-124: recv returned no data; game_id is looked up
\* in self.games without the lock
LockDisconnect(t) ==
    /\ pc[t] = "recv"
    /\ last = NoResponse
    /\ pc' = [pc EXCEPT ![t] =
                IF conn[t] # NoGameId /\ conn[t] \in DOMAIN games
                THEN "cleanup" ELSE "closing"]
    /\ UNCHANGED <<games, players, recordings, lock, conn, now, current_time, inbox, last>>

\* handle_player_disconnect line 383, called by the cleanup ("cleanup") or
\* by leave_game ("leave_acquire")
LockDisconnectAcquire(t) ==
    /\ pc[t] \in {"cleanup", "leave_acquire"}
    /\ last = NoResponse
    /\ acquire(t)
    /\ pc' = [pc EXCEPT ![t] = "in_" \o pc[t]]
    /\ UNCHANGED <<games, players, recordings, conn, now, current_time, inbox, last>>

\* handle_player_disconnect lines 384-433; the cleanup drops what it
\* returns, leave_game returns it
LockDisconnectBody(t) ==
    /\ pc[t] \in {"in_cleanup", "in_leave_acquire"}
    /\ handle_player_disconnect(t, IF pc[t] = "in_cleanup" THEN conn[t]
                                   ELSE inbox[t][1])
    /\ release(t)
    /\ pc' = [pc EXCEPT ![t] = IF pc[t] = "in_cleanup" THEN "closing" ELSE "send"]
    /\ UNCHANGED <<conn, now, current_time, inbox>>

\* check_inactivity lines 519-521: the sweeper wakes and reads the clock
SweepWake ==
    /\ pc[Sweeper] = "sleep"
    /\ last = NoResponse
    /\ \E g \in DOMAIN games : TimedOut(games[g], now)
    /\ current_time' = now
    /\ pc' = [pc EXCEPT ![Sweeper] = "sweep"]
    /\ UNCHANGED <<games, players, recordings, lock, conn, now, inbox, last>>

\* line 523
SweepAcquire ==
    /\ pc[Sweeper] = "sweep"
    /\ last = NoResponse
    /\ acquire(Sweeper)
    /\ pc' = [pc EXCEPT ![Sweeper] = "in_sweep"]
    /\ UNCHANGED <<games, players, recordings, conn, now, current_time, inbox, last>>

\* lines 524-539, then the lock is released and the sweeper sleeps again
SweepPass ==
    /\ pc[Sweeper] = "in_sweep"
    /\ check_inactivity(current_time)
    /\ release(Sweeper)
    /\ current_time' = 0
    /\ pc' = [pc EXCEPT ![Sweeper] = "sleep"]
    /\ UNCHANGED <<players, recordings, conn, now, inbox, last>>

NextLock ==
    \/ \E t \in Threads : LockAcquire(t)
    \/ \E t \in Threads : LockCreateGame(t)
    \/ \E t \in Threads : LockJoinGame(t)
    \/ \E t \in Threads : LockPlaceFence(t)
    \/ \E t \in Threads : LockLeaveGame(t)
    \/ \E t \in Threads : Send(t)
    \/ \E t \in Threads : LockDisconnect(t)
    \/ \E t \in Threads : LockDisconnectAcquire(t)
    \/ \E t \in Threads : LockDisconnectBody(t)
    \/ \E t \in Threads : Close(t)
    \/ SweepWake
    \/ SweepAcquire
    \/ SweepPass
    \/ Tick

SpecLock == Init /\ [][NextLock]_vars

(***************************************************************************)
(* SpecRace: every connection has received one place_fence request for     *)
(* the same session, which all of them have joined, and the handlers take  *)
(* the lock in any order.                                                  *)
(***************************************************************************)
RECURSIVE SeatFrom(_, _)
SeatFrom(game, t) ==
    IF t > NumClients THEN game ELSE SeatFrom(Joined(game, t, 0), t + 1)

\* the session after create_game by connection 1 and join_game by the others
RaceGame == SeatFrom(NewGame(1, MinGridSize, NumClients, 0, 0), 2)

RaceGameId == 1

RaceRequests == {<<RaceGameId, m[1], m[2]>> : m \in WellFormedMoves}

InitRace ==
    /\ games = Put(<<>>, RaceGameId, RaceGame)
    /\ players = [t \in Threads |-> NewStats]
    /\ recordings = Put(<<>>, RaceGameId, <<>>)
    /\ lock = Free
    /\ pc = [t \in Threads \cup {Sweeper} |-> IF t = Sweeper THEN "sleep" ELSE "recv"]
    /\ conn = [t \in Threads |-> RaceGameId]
    /\ now = 0
    /\ current_time = 0
    /\ inbox \in [Threads -> RaceRequests]
    /\ last = NoResponse

RaceAcquire(t) ==
    /\ pc[t] = "recv"
    /\ last = NoResponse
    /\ acquire(t)
    /\ pc' = [pc EXCEPT ![t] = "in_place_fence"]
    /\ UNCHANGED <<games, players, recordings, conn, now, current_time, inbox, last>>

RaceServe(t) ==
    /\ pc[t] = "in_place_fence"
    /\ place_fence(t, inbox[t][1], inbox[t][2], inbox[t][3])
    /\ release(t)
    /\ Returned(t)
    /\ UNCHANGED <<now, current_time, inbox>>

\* the response is sent and recv blocks: nothing more arrives
RaceSend(t) ==
    /\ pc[t] = "send"
    /\ pc' = [pc EXCEPT ![t] = "idle"]
    /\ last' = NoResponse
    /\ UNCHANGED <<games, players, recordings, lock, conn, now, current_time, inbox>>

NextRace ==
    \/ \E t \in Threads : RaceAcquire(t)
    \/ \E t \in Threads : RaceServe(t)
    \/ \E t \in Threads : RaceSend(t)

SpecRace == InitRace /\ [][NextRace]_vars

(***************************************************************************)
(* SpecPlay: a session of two seated players in which the eight border     *)
(* walls of the 2x2 grid have been placed, turn by turn, and the four      *)
(* inner walls are still open.  Every connection sends place_fence for any *)
(* side of any cell; the clock and the sweep run as in Spec.               *)
(***************************************************************************)
PlayGameId == RaceGameId

\* the moves made so far, as <<player_id, x, y, orientation>>
PlayOpening ==
    << <<1, 0, 0, "north">>, <<2, 0, 0, "west">>,
       <<1, 1, 0, "north">>, <<2, 1, 0, "east">>,
       <<1, 0, 1, "south">>, <<2, 0, 1, "west">>,
       <<1, 1, 1, "south">>, <<2, 1, 1, "east">> >>

\* the session and its log after the first n moves of PlayOpening, each
\* served by place_fence at time 0
RECURSIVE Opened(_, _)
Opened(seed, n) ==
    IF n = 0
    THEN [game |-> Joined(NewGame(1, MinGridSize, MinPlayers, seed, 0), 2, 0),
          log  |-> <<>>]
    ELSE LET before == Opened(seed, n - 1)
             m == PlayOpening[n]
         IN  IF move_error(before.game, m[1], <<m[2], m[3]>>, m[4]) # ""
             THEN before
             ELSE [game |-> Placement(before.game, m[2], m[3], m[4], 0),
                   log  |-> Recorded(before.log, m[1], m[2], m[3], m[4],
                                     LandClaimed(before.game, m[2], m[3], m[4]))]

PlayMoves == Cells(MinGridSize) \X OrientationSet

InitPlay ==
    /\ \E seed \in LandSeeds :
          /\ games = Put(<<>>, PlayGameId, Opened(seed, Len(PlayOpening)).game)
          /\ recordings = Put(<<>>, PlayGameId, Opened(seed, Len(PlayOpening)).log)
    /\ players = [t \in 1..MinPlayers |-> NewStats]
    /\ lock = Free
    /\ pc = [t \in Threads \cup {Sweeper} |-> IF t = Sweeper THEN "sleep" ELSE "recv"]
    /\ conn = [t \in Threads |-> IF t <= MinPlayers THEN PlayGameId ELSE NoGameId]
    /\ now = 0
    /\ current_time = 0
    /\ inbox = [t \in Threads |-> NoRequest]
    /\ last = NoResponse

PlayFence(t) ==
    /\ Serving(t)
    /\ \E move \in PlayMoves : place_fence(t, PlayGameId, move[1], move[2])
    /\ Returned(t)
    /\ UNCHANGED <<lock, now, current_time, inbox>>

NextPlay ==
    \/ \E t \in Threads : PlayFence(t)
    \/ \E t \in Threads : Send(t)
    \/ Sweep
    \/ Tick

SpecPlay == InitPlay /\ [][NextPlay]_vars

(***************************************************************************)
(* The Game class (src/newest prospector/server/game.py): one Game object, *)
(* kept in games under its game_id.  Its methods are functions of the      *)
(* object: they give the object after the call and the value returned.     *)
(***************************************************************************)
Game_initialize_grid(size) ==
    [c \in Cells(size) |->
        [north |-> FALSE, east |-> FALSE, south |-> FALSE, west |-> FALSE,
         owner |-> NoOwner, type |-> "regular"]]

\* Game.__init__
Game_init(grid_size, num_players, time) ==
    [grid_size |-> grid_size,
     num_players |-> num_players,
     players |-> <<>>,
     current_player_index |-> 0,
     grid |-> Game_initialize_grid(grid_size),
     game_over |-> FALSE,
     winner |-> NoWinner,
     last_activity |-> time,
     turn_start_time |-> time]

\* Game.add_player: the object afterwards and the boolean returned
Game_add_player(game, player_id, time) ==
    IF Len(game.players) >= game.num_players \/ Seated(game, player_id)
    THEN [game |-> game, result |-> FALSE]
    ELSE [game |-> [game EXCEPT
                       !.players = Append(game.players, [id |-> player_id, score |-> 0]),
                       !.last_activity = time],
          result |-> TRUE]

Game_check_land_enclosed(game, x, y) ==
    AllFences(game.grid[<<x, y>>]) /\ game.grid[<<x, y>>].owner = NoOwner

\* Game._check_game_over: a cell with four fences and no owner, or a cell
\* with a fence missing, makes it False
Game_check_game_over(game) ==
    \A c \in DOMAIN game.grid :
        /\ ~(AllFences(game.grid[c]) /\ game.grid[c].owner = NoOwner)
        /\ AllFences(game.grid[c])

Game_end_game(game) ==
    [game EXCEPT
        !.game_over = TRUE,
        !.winner = IF Cardinality(Winners(game)) = 1
                   THEN game.players[CHOOSE i \in Winners(game) : TRUE].id
                   ELSE Draw]

\* lines 72-91 of Game.place_fence: the message of the first check that
\* fails, "" when none does; an empty roster raises IndexError at line 73
Game_move_error(game, player_id, x, y, orientation) ==
    IF Len(game.players) = 0 THEN "IndexError"
    ELSE IF CurrentPlayer(game).id # player_id THEN "Not your turn"
    ELSE IF game.game_over THEN "Game is over"
    ELSE IF x < 0 \/ x >= game.grid_size \/ y < 0 \/ y >= game.grid_size
         THEN "Position out of bounds"
    ELSE IF orientation \notin OrientationSet THEN "Invalid orientation"
    ELSE IF game.grid[<<x, y>>][orientation] THEN "Fence already exists"
    ELSE ""

\* lines 113-115: one point for regular land, two for any other
Game_points(cell) == IF cell.type = "regular" THEN 1 ELSE 2

\* lines 93-128 of Game.place_fence: the object after an accepted move
Game_placement(game, x, y, orientation, time) ==
    LET fenced == [game EXCEPT
                     !.grid = SetFence(game.grid, game.grid_size, x, y, orientation)]
        land_claimed == Game_check_land_enclosed(fenced, x, y)
        claimed == IF land_claimed
                   THEN [fenced EXCEPT
                            !.grid[<<x, y>>].owner = CurrentPlayer(fenced).id,
                            !.players[fenced.current_player_index + 1].score =
                                @ + Game_points(fenced.grid[<<x, y>>])]
                   ELSE fenced
        turned == [claimed EXCEPT
                      !.last_activity = time,
                      !.current_player_index =
                          IF ~land_claimed
                          THEN (claimed.current_player_index + 1) % Len(claimed.players)
                          ELSE claimed.current_player_index]
    IN  IF Game_check_game_over(turned) THEN Game_end_game(turned) ELSE turned

\* Game.place_fence: the object afterwards and the dictionary returned
Game_place_fence(game, player_id, x, y, orientation, time) ==
    LET error == Game_move_error(game, player_id, x, y, orientation) IN
    IF error # ""
    THEN [game |-> game, result |-> Error("place_fence", error)]
    ELSE [game |-> Game_placement(game, x, y, orientation, time),
          result |-> Response("place_fence", "success", "",
                              Game_check_land_enclosed(
                                  [game EXCEPT !.grid = SetFence(game.grid, game.grid_size,
                                                                 x, y, orientation)], x, y))]

\* Game.remove_player: the object afterwards and the value returned
Game_remove_player(game, player_id) ==
    LET player_index == PlayerIndex(game, player_id) IN
    IF player_index = 0 THEN [game |-> game, result |-> "False"]
    ELSE IF Len(game.players) <= 1 THEN [game |-> game, result |-> "remove_game"]
    ELSE LET roster == Pop(game.players, player_index)
             index == IF game.current_player_index >= Len(roster)
                      THEN 0 ELSE game.current_player_index
             left == [game EXCEPT !.players = roster, !.current_player_index = index]
         IN  [game |-> IF Len(roster) = 1
                       THEN [left EXCEPT !.game_over = TRUE, !.winner = roster[1].id]
                       ELSE left,
              result |-> "True"]

(***************************************************************************)
(* SpecGame: a Game object for a 2x2 grid and two players, on which any    *)
(* caller invokes add_player, place_fence and remove_player with any       *)
(* player id and any side of any cell.                                     *)
(***************************************************************************)
ObjectId == RaceGameId

\* the player ids the callers pass
Callers == 1..MinPlayers

InitGame ==
    /\ games = Put(<<>>, ObjectId, Game_init(MinGridSize, MinPlayers, 0))
    /\ players = <<>>
    /\ recordings = <<>>
    /\ lock = Free
    /\ pc = [t \in Threads \cup {Sweeper} |-> IF t = Sweeper THEN "sleep" ELSE "recv"]
    /\ conn = [t \in Threads |-> NoGameId]
    /\ now = 0
    /\ current_time = 0
    /\ inbox = [t \in Threads |-> NoRequest]
    /\ last = NoResponse

GameAddPlayer(t) ==
    /\ Serving(t)
    /\ LET call == Game_add_player(games[ObjectId], t, now)
       IN  /\ games' = [games EXCEPT ![ObjectId] = call.game]
           /\ last' = IF call.result THEN Success("add_player", "True")
                      ELSE Error("add_player", "False")
    /\ Returned(t)
    /\ UNCHANGED <<players, recordings, lock, conn, now, current_time, inbox>>

GamePlaceFence(t) ==
    /\ Serving(t)
    /\ \E move \in PlayMoves :
          LET call == Game_place_fence(games[ObjectId], t, move[1][1], move[1][2],
                                       move[2], now)
          IN  /\ games' = [games EXCEPT ![ObjectId] = call.game]
              /\ last' = call.result
    /\ Returned(t)
    /\ UNCHANGED <<players, recordings, lock, conn, now, current_time, inbox>>

GameRemovePlayer(t) ==
    /\ Serving(t)
    /\ LET call == Game_remove_player(games[ObjectId], t)
       IN  /\ games' = [games EXCEPT ![ObjectId] = call.game]
           /\ last' = IF call.result = "False" THEN Error("remove_player", "False")
                      ELSE Success("remove_player", call.result)
    /\ Returned(t)
    /\ UNCHANGED <<players, recordings, lock, conn, now, current_time, inbox>>

NextGame ==
    \/ \E t \in Callers : GameAddPlayer(t)
    \/ \E t \in Callers : GamePlaceFence(t)
    \/ \E t \in Callers : GameRemovePlayer(t)
    \/ \E t \in Callers : Send(t)

SpecGame == InitGame /\ [][NextGame]_vars

(***************************************************************************)
(* SpecConn: two sessions are open, the first created by connection 1 and  *)
(* the second by connection 2.  The connections join either of them and    *)
(* close; handle_client's cleanup runs as in Spec.                         *)
(***************************************************************************)
FirstGameId == RaceGameId

SecondGameId == FirstGameId + 1

ConnGameIdInputs == {NoGameId, FirstGameId, SecondGameId}

InitConn ==
    /\ games = Put(Put(<<>>, FirstGameId, NewGame(1, MinGridSize, MinPlayers, 0, 0)),
                   SecondGameId, NewGame(2, MinGridSize, MinPlayers, 0, 0))
    /\ players = [t \in 1..2 |-> NewStats]
    /\ recordings = Put(Put(<<>>, FirstGameId, <<>>), SecondGameId, <<>>)
    /\ lock = Free
    /\ pc = [t \in Threads \cup {Sweeper} |-> IF t = Sweeper THEN "sleep" ELSE "recv"]
    /\ conn = [t \in Threads |-> IF t = 1 THEN FirstGameId
                                 ELSE IF t = 2 THEN SecondGameId ELSE NoGameId]
    /\ now = 0
    /\ current_time = 0
    /\ inbox = [t \in Threads |-> NoRequest]
    /\ last = NoResponse

ConnJoin(t) ==
    /\ Serving(t)
    /\ \E game_id \in ConnGameIdInputs : join_game(t, game_id)
    /\ Numbered(t)
    /\ Returned(t)
    /\ UNCHANGED <<lock, now, current_time, inbox>>

NextConn ==
    \/ \E t \in Threads : ConnJoin(t)
    \/ \E t \in Threads : Send(t)
    \/ \E t \in Threads : Disconnect(t)
    \/ \E t \in Threads : Close(t)

SpecConn == InitConn /\ [][NextConn]_vars

(***************************************************************************)
(* SpecWire: handle_client's receive loop, message by message.  A second   *)
(* session is open (created by connection 1); the connections create the   *)
(* first one, join, list the recordings, send messages that do not decode  *)
(* or do not have the expected types, and close.  A wire message is        *)
(* <<kind, game_id>>.                                                      *)
(***************************************************************************)
WireKinds == {"invalid_json", "invalid_utf8", "not_a_record", "unknown_action",
              "mistyped_grid_size", "mistyped_position"}

\* b'{oops', b'\xff\xfe', b'[]', {"action": "zzz"},
\* {"action": "create_game", "grid_size": "abc"} and
\* {"action": "place_fence", "game_id": g, "position": {"x": "a", "y": 0}}
WireMessages ==
    ((WireKinds \ {"mistyped_position"}) \X {NoGameId})
        \cup ({"mistyped_position"} \X ConnGameIdInputs)

\* lines 265-277: what place_fence checks before it reads the position
place_fence_precheck(t, game_id) ==
    IF game_id = NoGameId \/ game_id \notin DOMAIN games THEN "Invalid game ID"
    ELSE IF CurrentPlayer(games[game_id]).id # t THEN "Not your turn"
    ELSE IF games[game_id].game_over THEN "Game is over"
    ELSE ""

\* The messages whose handling raises something other than JSONDecodeError:
\* UnicodeDecodeError in data.decode, AttributeError in message.get,
\* TypeError in `grid_size < 2` and in `x < 0`.
Raises(t, message) ==
    \/ message[1] \in {"invalid_utf8", "not_a_record", "mistyped_grid_size"}
    \/ /\ message[1] = "mistyped_position"
       /\ place_fence_precheck(t, message[2]) = ""

\* the response to a message that raises nothing or JSONDecodeError
WireError(t, message) ==
    IF message[1] = "invalid_json"
    THEN Error("handle_client", "Invalid JSON format")
    ELSE IF message[1] = "unknown_action"
    THEN Error("process_message", "Unknown action")
    ELSE Error("place_fence", place_fence_precheck(t, message[2]))

\* lines 118-125: the exception ends the receive loop, the finally clause
\* runs the cleanup, the socket is closed and nothing is sent
Raise(t, message) ==
    /\ inbox' = [inbox EXCEPT ![t] = message]
    /\ IF conn[t] # NoGameId /\ conn[t] \in DOMAIN games
       THEN /\ lock = Free
            /\ handle_player_disconnect(t, conn[t])
       ELSE UNCHANGED <<games, players, recordings, last>>
    /\ pc' = [pc EXCEPT ![t] = "closing"]
    /\ UNCHANGED <<lock, conn, now, current_time>>

InitWire ==
    /\ games = Put(<<>>, SecondGameId, NewGame(1, MinGridSize, MinPlayers, 0, 0))
    /\ players = [t \in 1..1 |-> NewStats]
    /\ recordings = Put(<<>>, SecondGameId, <<>>)
    /\ lock = Free
    /\ pc = [t \in Threads \cup {Sweeper} |-> IF t = Sweeper THEN "sleep" ELSE "recv"]
    /\ conn = [t \in Threads |-> IF t = 1 THEN SecondGameId ELSE NoGameId]
    /\ now = 0
    /\ current_time = 0
    /\ inbox = [t \in Threads |-> NoRequest]
    /\ last = NoResponse

WireReject(t) ==
    /\ Serving(t)
    /\ \E message \in WireMessages :
          /\ ~Raises(t, message)
          /\ last' = WireError(t, message)
    /\ Returned(t)
    /\ UNCHANGED <<games, players, recordings, lock, conn, now, current_time, inbox>>

WireRaise(t) ==
    /\ Serving(t)
    /\ \E message \in WireMessages :
          /\ Raises(t, message)
          /\ Raise(t, message)

\* list_recordings, line 620: iter(self.recordings), taken without self.lock;
\* the iterator remembers the size of the dictionary
ListStart(t) ==
    /\ pc[t] = "recv"
    /\ last = NoResponse
    /\ pc' = [pc EXCEPT ![t] = "list_recordings"]
    /\ inbox' = [inbox EXCEPT ![t] =
                    <<"list_recordings", Cardinality(DOMAIN recordings)>>]
    /\ UNCHANGED <<games, players, recordings, lock, conn, now, current_time, last>>

\* lines 620-633: the next step of the iteration raises RuntimeError
\* ("dictionary changed size during iteration") when a session was created
\* meanwhile; otherwise the list is returned
ListNext(t) ==
    /\ pc[t] = "list_recordings"
    /\ last = NoResponse
    /\ IF Cardinality(DOMAIN recordings) # inbox[t][2]
       THEN Raise(t, inbox[t])
       ELSE /\ last' = Success("list_recordings", "Recordings list retrieved")
            /\ inbox' = [inbox EXCEPT ![t] = NoRequest]
            /\ Returned(t)
            /\ UNCHANGED <<games, players, recordings, lock, conn, now, current_time>>

NextWire ==
    \/ \E t \in Threads : CreateGame(t)
    \/ \E t \in Threads : ConnJoin(t)
    \/ \E t \in Threads : WireReject(t)
    \/ \E t \in Threads : WireRaise(t)
    \/ \E t \in Threads : ListStart(t)
    \/ \E t \in Threads : ListNext(t)
    \/ \E t \in Threads : Send(t)
    \/ \E t \in Threads : Disconnect(t)
    \/ \E t \in Threads : Close(t)

SpecWire == InitWire /\ [][NextWire]_vars

(***************************************************************************)
(* SpecCross: the two sessions of SpecConn, with the lock as in SpecLock.  *)
(* A connection receives a join_game or place_fence request naming one of  *)
(* the sessions (the request is in its inbox from then on), enters the     *)
(* handler, whose `with self.lock:` waits for the lock, runs the body and  *)
(* sends the response.                                                     *)
(***************************************************************************)
CrossHandlers == {"join_game", "place_fence"}

\* the place_fence requests of SpecCross
CrossMoveInputs == {<< <<0, 0>>, "north" >>, << <<0, 0>>, "west" >>}

CrossRequests(h) ==
    IF h = "join_game"
    THEN {<<game_id>> : game_id \in {FirstGameId, SecondGameId}}
    ELSE {<<game_id, move[1], move[2]>> :
            game_id \in {FirstGameId, SecondGameId}, move \in CrossMoveInputs}

\* lines 91-101 and 127-137: the message is decoded and dispatched
CrossReceive(t) ==
    /\ pc[t] = "recv"
    /\ last = NoResponse
    /\ \E h \in CrossHandlers :
          /\ pc' = [pc EXCEPT ![t] = h]
          /\ \E request \in CrossRequests(h) :
                inbox' = [inbox EXCEPT ![t] = request]
    /\ UNCHANGED <<games, players, recordings, lock, conn, now, current_time, last>>

\* lines 215 and 260: `with self.lock:`
CrossAcquire(t) ==
    /\ pc[t] \in CrossHandlers
    /\ last = NoResponse
    /\ acquire(t)
    /\ pc' = [pc EXCEPT ![t] = "in_" \o pc[t]]
    /\ UNCHANGED <<games, players, recordings, conn, now, current_time, inbox, last>>

CrossJoinGame(t) ==
    /\ pc[t] = "in_join_game"
    /\ join_game(t, inbox[t][1])
    /\ Numbered(t)
    /\ release(t)
    /\ Returned(t)
    /\ inbox' = [inbox EXCEPT ![t] = NoRequest]
    /\ UNCHANGED <<now, current_time>>

CrossPlaceFence(t) ==
    /\ pc[t] = "in_place_fence"
    /\ place_fence(t, inbox[t][1], inbox[t][2], inbox[t][3])
    /\ release(t)
    /\ Returned(t)
    /\ inbox' = [inbox EXCEPT ![t] = NoRequest]
    /\ UNCHANGED <<now, current_time>>

NextCross ==
    \/ \E t \in Threads : CrossReceive(t)
    \/ \E t \in Threads : CrossAcquire(t)
    \/ \E t \in Threads : CrossJoinGame(t)
    \/ \E t \in Threads : CrossPlaceFence(t)
    \/ \E t \in Threads : Send(t)

SpecCross == InitConn /\ [][NextCross]_vars

(***************************************************************************)
(* SpecSweep: a session created by connection 1 is open and the threads    *)
(* run as in SpecLock, with the scheduling they have.  A connection thread *)
(* that is inside a handler, has a response to send or is closing takes    *)
(* its next step; a thread waiting for the lock gets it if the lock is     *)
(* free again and again; the sweeper's sleep ends and its pass runs.       *)
(* Nothing obliges a client to send a request or to close, or the clock to *)
(* advance.                                                                *)
(***************************************************************************)
InitSweep ==
    /\ games = Put(<<>>, FirstGameId, NewGame(1, MinGridSize, MinPlayers, 0, 0))
    /\ players = [t \in 1..1 |-> NewStats]
    /\ recordings = Put(<<>>, FirstGameId, <<>>)
    /\ lock = Free
    /\ pc = [t \in Threads \cup {Sweeper} |-> IF t = Sweeper THEN "sleep" ELSE "recv"]
    /\ conn = [t \in Threads |-> IF t = 1 THEN FirstGameId ELSE NoGameId]
    /\ now = 0
    /\ current_time = 0
    /\ inbox = [t \in Threads |-> NoRequest]
    /\ last = NoResponse

\* process_message dispatches to join_game, place_fence or leave_game
SweepRequest(t) ==
    /\ pc[t] = "recv"
    /\ last = NoResponse
    /\ acquire(t)
    /\ \E h \in Handlers \ {"create_game"} : pc' = [pc EXCEPT ![t] = "in_" \o h]
    /\ UNCHANGED <<games, players, recordings, conn, now, current_time, inbox, last>>

HandlerProgress(t) ==
    \/ LockJoinGame(t)
    \/ LockPlaceFence(t)
    \/ LockLeaveGame(t)
    \/ LockDisconnectBody(t)
    \/ Send(t)
    \/ Close(t)

NextSweep ==
    \/ \E t \in Threads : SweepRequest(t)
    \/ \E t \in Threads : LockJoinGame(t)
    \/ \E t \in Threads : LockPlaceFence(t)
    \/ \E t \in Threads : LockLeaveGame(t)
    \/ \E t \in Threads : Send(t)
    \/ \E t \in Threads : LockDisconnect(t)
    \/ \E t \in Threads : LockDisconnectAcquire(t)
    \/ \E t \in Threads : LockDisconnectBody(t)
    \/ \E t \in Threads : Close(t)
    \/ SweepWake
    \/ SweepAcquire
    \/ SweepPass
    \/ Tick

SpecSweep ==
    /\ InitSweep
    /\ [][NextSweep]_vars
    /\ \A t \in Threads : WF_vars(HandlerProgress(t))
    /\ \A t \in Threads : SF_vars(LockDisconnectAcquire(t))
    /\ SF_vars(SweepWake)
    /\ SF_vars(SweepAcquire)
    /\ WF_vars(SweepPass)

(***************************************************************************)
(* The client's replay of a move log (run_client.py): a blank grid, then   *)
(* apply_replay_move for every entry in order.                             *)
(***************************************************************************)
\* start_replay lines 528-543, for a grid of the given size
replay_grid(size) ==
    [c \in Cells(size) |->
        [north |-> FALSE, east |-> FALSE, south |-> FALSE, west |-> FALSE,
         owner |-> NoOwner, type |-> "regular", value |-> 1]]

\* apply_replay_move lines 659-688; len(self.replay_grid) is size
apply_replay_move(grid, size, move) ==
    LET x == move.x
        y == move.y
        orientation == move.orientation
        placed == [grid EXCEPT ![<<x, y>>][orientation] = TRUE]
        adjacent ==
            IF orientation = "north" /\ y > 0
            THEN [placed EXCEPT ![<<x, y - 1>>].south = TRUE]
            ELSE IF orientation = "east" /\ x < size - 1
            THEN [placed EXCEPT ![<<x + 1, y>>].west = TRUE]
            ELSE IF orientation = "south" /\ y < size - 1
            THEN [placed EXCEPT ![<<x, y + 1>>].north = TRUE]
            ELSE IF orientation = "west" /\ x > 0
            THEN [placed EXCEPT ![<<x - 1, y>>].east = TRUE]
            ELSE placed
    IN  IF move.land_claimed
        THEN [adjacent EXCEPT ![<<x, y>>].owner = move.player_id]
        ELSE adjacent

\* the replay grid after the first n entries of the recording
RECURSIVE Replay(_, _, _)
Replay(recording, n, size) ==
    IF n = 0 THEN replay_grid(size)
    ELSE apply_replay_move(Replay(recording, n - 1, size), size, recording[n])

(***************************************************************************)
(* SpecTimer: the turn timer of a Game object.  games[ObjectId] holds the  *)
(* attributes the timer methods use.  Every threading.Timer that           *)
(* start_turn_timer creates is a thread k: inbox[k] is <<the time it was   *)
(* started, its `finished` event>>, and pc[k] is its place in Timer.run:   *)
(* not created ("new"), in finished.wait(interval) ("wait"), past the      *)
(* test `if not self.finished.is_set()` and about to call on_timeout       *)
(* ("call"), or ended ("done").  The Game class has no lock: the methods   *)
(* and the steps of the timer threads interleave freely.                   *)
(***************************************************************************)
NoTimer == 0

TurnTimeLimit == 60

\* Game.__init__ lines 25-28
Game_timer_init(time) ==
    [turn_time_limit |-> TurnTimeLimit,
     turn_start_time |-> time,
     timer_thread |-> NoTimer,
     timer_active |-> FALSE]

\* Thread.is_alive(): started and run() has not returned
is_alive(k) == pc[k] \in {"wait", "call"}

\* `if self.timer_thread and self.timer_thread.is_alive():
\*      self.timer_thread.cancel()`: Timer.cancel sets the finished event
cancel_current(timers) ==
    LET k == games[ObjectId].timer_thread
    IN  IF k # NoTimer /\ is_alive(k)
        THEN [timers EXCEPT ![k] = <<timers[k][1], TRUE>>]
        ELSE timers

InitTimer ==
    /\ games = Put(<<>>, ObjectId, Game_timer_init(0))
    /\ players = <<>>
    /\ recordings = <<>>
    /\ lock = Free
    /\ pc = [t \in Threads \cup {Sweeper} |-> IF t = Sweeper THEN "sleep" ELSE "new"]
    /\ conn = [t \in Threads |-> NoGameId]
    /\ now = 0
    /\ current_time = 0
    /\ inbox = [t \in Threads |-> NoRequest]
    /\ last = NoResponse

\* Game.start_turn_timer: k is the Timer object it creates
StartTurnTimer(k) ==
    /\ pc[k] = "new"
    /\ \A j \in Threads : pc[j] = "new" => k <= j
    /\ games' = [games EXCEPT ![ObjectId] =
                    [@ EXCEPT !.turn_start_time = now,
                              !.timer_active = TRUE,
                              !.timer_thread = k]]
    /\ inbox' = [cancel_current(inbox) EXCEPT ![k] = <<now, FALSE>>]
    /\ pc' = [pc EXCEPT ![k] = "wait"]
    /\ UNCHANGED <<players, recordings, lock, conn, now, current_time, last>>

\* Game.cancel_turn_timer
CancelTurnTimer ==
    /\ games[ObjectId].timer_active
    /\ games' = [games EXCEPT ![ObjectId] = [@ EXCEPT !.timer_active = FALSE]]
    /\ inbox' = cancel_current(inbox)
    /\ UNCHANGED <<players, recordings, lock, pc, conn, now, current_time, last>>

\* Timer.run: finished.wait(interval) returns because the event was set or
\* the interval has passed, and the event is tested
TimerWake(k) ==
    /\ pc[k] = "wait"
    /\ IF inbox[k][2]
       THEN pc' = [pc EXCEPT ![k] = "done"]
       ELSE /\ now - inbox[k][1] >= games[ObjectId].turn_time_limit
            /\ pc' = [pc EXCEPT ![k] = "call"]
    /\ UNCHANGED <<games, players, recordings, lock, conn, now, current_time, inbox, last>>

\* Timer.run: self.function() is called, here on_timeout, and the event is set
TimerCall(k) ==
    /\ pc[k] = "call"
    /\ pc' = [pc EXCEPT ![k] = "done"]
    /\ inbox' = [inbox EXCEPT ![k] = <<inbox[k][1], TRUE>>]
    /\ UNCHANGED <<games, players, recordings, lock, conn, now, current_time, last>>

NextTimer ==
    \/ \E k \in Threads : StartTurnTimer(k)
    \/ CancelTurnTimer
    \/ \E k \in Threads : TimerWake(k)
    \/ \E k \in Threads : TimerCall(k)
    \/ Tick

SpecTimer == InitTimer /\ [][NextTimer]_vars

(***************************************************************************)
(* SpecSnap: the session of SpecPlay, with the response followed from the  *)
(* handler's return to the send.  place_fence runs under the lock and      *)
(* returns a response whose "game_state" is the session's dict itself;     *)
(* handle_client encodes and sends the response after the lock is          *)
(* released, so other connections are served in between.  inbox[t] is the  *)
(* success response connection t has still to send: <<the session its      *)
(* game_state refers to, the session's state when place_fence returned>>.  *)
(***************************************************************************)
SnapPlaceFence(t) ==
    /\ pc[t] = "recv"
    /\ lock = Free
    /\ \E move \in PlayMoves : place_fence(t, PlayGameId, move[1], move[2])
    /\ Returned(t)
    /\ inbox' = [inbox EXCEPT ![t] =
                    IF last'.status = "success"
                    THEN <<PlayGameId, games'[PlayGameId]>>
                    ELSE NoRequest]
    /\ UNCHANGED <<lock, now, current_time>>

\* encode_message(response) reads the dict "game_state" refers to
encoded_game_state(t) == games[inbox[t][1]]

\* client_socket.send(encode_message(response))
SnapSend(t) ==
    /\ pc[t] = "send"
    /\ pc' = [pc EXCEPT ![t] = "recv"]
    /\ inbox' = [inbox EXCEPT ![t] = NoRequest]
    /\ last' = NoResponse
    /\ UNCHANGED <<games, players, recordings, lock, conn, now, current_time>>

NextSnap ==
    \/ \E t \in Threads : SnapPlaceFence(t)
    \/ \E t \in Threads : SnapSend(t)

SpecSnap == InitPlay /\ [][NextSnap]_vars

(***************************************************************************)
(* Vocabulary of the properties                                            *)
(***************************************************************************)
RECURSIVE SumScores(_, _)
SumScores(roster, n) ==
    IF n = 0 THEN 0 ELSE roster[n].score + SumScores(roster, n - 1)

RECURSIVE SumValues(_, _)
SumValues(grid, cells) ==
    IF cells = {} THEN 0
    ELSE LET c == CHOOSE d \in cells : TRUE
         IN  grid[c].value + SumValues(grid, cells \ {c})

Owned(game) == {c \in DOMAIN game.grid : game.grid[c].owner # NoOwner}

OwnedBySeated(game) == {c \in Owned(game) : Seated(game, game.grid[c].owner)}

Ids(game) == {game.players[i].id : i \in 1..Len(game.players)}

ScoreOf(game, pid) == game.players[PlayerIndex(game, pid)].score

\* this step is a place_fence on session g that returned success
Placed(g) ==
    /\ g \in DOMAIN games /\ g \in DOMAIN games'
    /\ last'.op = "place_fence" /\ last'.status = "success"
    /\ Len(recordings'[g]) = Len(recordings[g]) + 1

\* the move a successful place_fence on session g has just logged
Logged(g) == recordings[g][Len(recordings[g])]

\* the last response is a place_fence that succeeded on session g
JustPlaced(g) ==
    /\ g \in DOMAIN games
    /\ last.op = "place_fence" /\ last.status = "success"
    /\ Len(recordings[g]) > 0

Opposite(o) ==
    CASE o = "north" -> "south" [] o = "south" -> "north"
      [] o = "east" -> "west"   [] o = "west" -> "east"

\* the cell beyond side o of cell c with the side it shares, as a set:
\* empty at the border of the grid
Neighbour(size, c, o) ==
    LET d == CASE o = "north" -> <<c[1], c[2] - 1>>
               [] o = "south" -> <<c[1], c[2] + 1>>
               [] o = "east"  -> <<c[1] + 1, c[2]>>
               [] o = "west"  -> <<c[1] - 1, c[2]>>
    IN  IF d \in Cells(size) THEN {<<d, Opposite(o)>>} ELSE {}

\* the flags that make up the wall on side o of cell c
Wall(size, c, o) == {<<c, o>>} \cup Neighbour(size, c, o)

(***************************************************************************)
(* C1  Turn rotation law: a successful place_fence that claims no cell     *)
(* moves current_player_index to (index + 1) mod the number of seated      *)
(* players; one that claims a cell leaves the index where it was.          *)
(***************************************************************************)
TurnRotationStep ==
    \A g \in DOMAIN games :
        Placed(g) =>
            games'[g].current_player_index =
                IF last'.land_claimed
                THEN games[g].current_player_index
                ELSE (games[g].current_player_index + 1) % Len(games[g].players)

TurnRotationLaw == [][TurnRotationStep]_vars

\* a claiming move among three seated players: the claimer, in the last
\* seat, still holds the turn
TurnRotationWitness ==
    \E g \in DOMAIN games :
        /\ JustPlaced(g)
        /\ last.land_claimed
        /\ Len(games[g].players) = 3
        /\ games[g].current_player_index = 2
        /\ CurrentPlayer(games[g]).id = Logged(g).player_id
        /\ \E k \in 1..Len(recordings[g]) : recordings[g][k].player_id # Logged(g).player_id

(***************************************************************************)
(* C2  A successful place_fence at (x,y) that completes the four fences of *)
(* the unowned cell (x,y) makes the mover its owner, raises the mover's    *)
(* score by the cell's value, changes no other score and reports           *)
(* land_claimed; any other successful place_fence changes no score and no  *)
(* owner.                                                                  *)
(***************************************************************************)
ClaimStep ==
    \A g \in DOMAIN games :
        Placed(g) =>
            LET e == Logged(g)'
                c == <<e.x, e.y>>
                before == games[g]
                after == games'[g]
                completes == AllFences(after.grid[c]) /\ before.grid[c].owner = NoOwner
                others == {d \in DOMAIN before.grid : d # c}
            IN  /\ Ids(after) = Ids(before)
                /\ \A d \in others : after.grid[d].owner = before.grid[d].owner
                /\ \A p \in Ids(before) \ {e.player_id} :
                        ScoreOf(after, p) = ScoreOf(before, p)
                /\ IF completes
                   THEN /\ after.grid[c].owner = e.player_id
                        /\ before.grid[c].value \in {1, 2, 3}
                        /\ ScoreOf(after, e.player_id) =
                                ScoreOf(before, e.player_id) + before.grid[c].value
                        /\ last'.land_claimed /\ e.land_claimed
                   ELSE /\ after.grid[c].owner = before.grid[c].owner
                        /\ ScoreOf(after, e.player_id) = ScoreOf(before, e.player_id)
                        /\ ~last'.land_claimed /\ ~e.land_claimed

ClaimLaw == [][ClaimStep]_vars

\* the second seated player has just claimed cell (0,0)
ClaimWitness ==
    \E g \in DOMAIN games :
        /\ JustPlaced(g)
        /\ last.land_claimed
        /\ Len(games[g].players) >= 2
        /\ games[g].grid[<<0, 0>>].owner = games[g].players[2].id
        /\ games[g].players[2].score = games[g].grid[<<0, 0>>].value
        /\ games[g].players[1].score = 0

(***************************************************************************)
(* C3  Score conservation as claimed: the scores of the roster add up to   *)
(* the values of all owned cells.                                          *)
(***************************************************************************)
ScoreConservation ==
    \A g \in DOMAIN games :
        SumScores(games[g].players, Len(games[g].players)) =
            SumValues(games[g].grid, Owned(games[g]))

(***************************************************************************)
(* C3 (amended)  The scores of the roster add up to the values of the      *)
(* cells owned by players who are still seated.                            *)
(***************************************************************************)
SeatedScoreConservation ==
    \A g \in DOMAIN games :
        SumScores(games[g].players, Len(games[g].players)) =
            SumValues(games[g].grid, OwnedBySeated(games[g]))

\* the owner of a cell has left and two players are still seated
SeatedScoreWitness ==
    \E g \in DOMAIN games :
        /\ Owned(games[g]) # {}
        /\ OwnedBySeated(games[g]) = {}
        /\ Len(games[g].players) = 2

(***************************************************************************)
(* C4  No cell has all four fences set while its owner is absent.          *)
(***************************************************************************)
NoUnclaimedEnclosure ==
    \A g \in DOMAIN games :
        \A c \in DOMAIN games[g].grid :
            AllFences(games[g].grid[c]) => games[g].grid[c].owner # NoOwner

(***************************************************************************)
(* C5  A leave_game request for an existing session returns and leaves the *)
(* lock free: no thread ever waits for the lock while holding it itself.   *)
(***************************************************************************)
LeaveGameReturns ==
    \A t \in Threads : ~(pc[t] = "leave_acquire" /\ lock = t)

(***************************************************************************)
(* C6  Operations on the sessions are serialized: at most one thread is    *)
(* inside place_fence, join_game, leave_game, create_game, the disconnect  *)
(* cleanup or the sweep, that thread holds the lock, and every step that   *)
(* changes a session, the directory or a move log is taken by it.          *)
(***************************************************************************)
InHandler(t) ==
    pc[t] \in {"in_create_game", "in_join_game", "in_place_fence", "in_leave_game",
               "leave_acquire", "in_leave_acquire", "in_cleanup", "in_sweep"}

MutualExclusion ==
    \A t, u \in Threads \cup {Sweeper} :
        InHandler(t) => lock = t /\ (InHandler(u) => u = t)

SerializedStep ==
    (games' # games \/ players' # players \/ recordings' # recordings)
        => /\ lock # Free
           /\ InHandler(lock)
           /\ lock' = Free

Serialized == []MutualExclusion /\ [][SerializedStep]_vars

\* a player's move holds the lock while the sweeper, which has found that
\* player timed out, waits for it
SerializedWitness ==
    \E t \in Threads, g \in DOMAIN games :
        /\ pc[t] = "in_place_fence" /\ lock = t
        /\ CurrentPlayer(games[g]).id = t
        /\ Len(games[g].players) >= 2
        /\ pc[Sweeper] = "sweep"
        /\ TimedOut(games[g], current_time)

(***************************************************************************)
(* C7  As claimed: the final grid of N concurrent moves is the same for    *)
(* every interleaving, hence the one reached when they are served in seat  *)
(* order.                                                                  *)
(***************************************************************************)
RaceDone == \A t \in Threads : pc[t] = "idle"

\* place_fence on a session, as a function of the session
Served(game, t, request) ==
    IF move_error(game, t, request[2], request[3]) # "" THEN game
    ELSE LET moved == Placement(game, request[2][1], request[2][2], request[3], 0)
         IN  IF check_game_over(moved) THEN end_game_state(moved) ELSE moved

RECURSIVE ServedFrom(_, _)
ServedFrom(game, t) ==
    IF t > NumClients THEN game
    ELSE ServedFrom(Served(game, t, inbox[t]), t + 1)

RaceLog == recordings[RaceGameId]

RaceServedStep ==
    (last = NoResponse /\ last' # NoResponse) =>
        \A t \in Threads :
            pc[t] = "in_place_fence" =>
                LET game == games[RaceGameId]
                    position == inbox[t][2]
                    orientation == inbox[t][3]
                    turn == CurrentPlayer(game).id = t
                IN  IF turn /\ ~game.grid[position][orientation]
                    THEN /\ last'.status = "success"
                         /\ Len(recordings'[RaceGameId]) = Len(RaceLog) + 1
                         /\ LET move == recordings'[RaceGameId][Len(RaceLog) + 1]
                            IN  /\ move.player_id = t
                                /\ <<move.x, move.y>> = position
                                /\ move.orientation = orientation
                         /\ games'[RaceGameId].grid[position][orientation]
                    ELSE /\ last' = Error("place_fence",
                                          IF turn THEN "Fence already exists"
                                          ELSE "Not your turn")
                         /\ UNCHANGED <<games, players, recordings>>

LoggedWalls ==
    UNION {Wall(MinGridSize, <<RaceLog[i].x, RaceLog[i].y>>, RaceLog[i].orientation) :
              i \in 1..Len(RaceLog)}

SetFlags(grid) == {<<c, o>> \in (DOMAIN grid) \X OrientationSet : grid[c][o]}

RaceOutcome == RaceDone => SetFlags(games[RaceGameId].grid) = LoggedWalls

PlaceRequest(t, game_id, move) ==
    /\ pc[t] = "recv" /\ pc'[t] = "send"
    /\ last = NoResponse
    /\ place_fence(t, game_id, move[1], move[2])

RejectionStep ==
    (last = NoResponse /\ last'.op = "place_fence") =>
        /\ last'.status = "error" => UNCHANGED <<games, players, recordings>>
        /\ \A t \in Threads : \A g \in DOMAIN games :
                ( /\ pc[t] = "recv" /\ pc'[t] = "send"
                  /\ Seated(games[g], t)
                  /\ CurrentPlayer(games[g]).id # t )
                => \A m \in MoveInputs :
                      PlaceRequest(t, g, m)
                      => /\ last' = Error("place_fence", "Not your turn")
                         /\ UNCHANGED <<games, players, recordings>>

RejectionLaw == [][RejectionStep]_vars

\* 'Not your turn' has just been returned in a session of two players in
\* which fences were placed already
RejectionWitness ==
    /\ last = Error("place_fence", "Not your turn")
    /\ \E g \in DOMAIN games :
          /\ Len(games[g].players) = 2
          /\ Len(recordings[g]) >= 2
          /\ \E t \in Threads :
                pc[t] = "send" /\ Seated(games[g], t) /\ CurrentPlayer(games[g]).id # t

(***************************************************************************)
(* C9  As claimed: a place_fence by the turn holder that names a flag of   *)
(* cell (x,y) that is already true always fails with 'Fence already        *)
(* exists'.                                                                *)
(***************************************************************************)
\* request m names a flag of a cell of session g that is set
NamesSetFence(g, m) ==
    /\ m[1] \in DOMAIN games[g].grid
    /\ m[2] \in OrientationSet
    /\ games[g].grid[m[1]][m[2]]

\* thread t, holding the turn in session g, is the one taking this step
HolderSteps(t, g) ==
    /\ pc[t] = "recv" /\ pc'[t] = "send"
    /\ CurrentPlayer(games[g]).id = t

FenceExistsStep ==
    (last = NoResponse /\ last'.op = "place_fence") =>
        \A t \in Threads : \A g \in DOMAIN games :
            HolderSteps(t, g) =>
                \A m \in MoveInputs :
                    (NamesSetFence(g, m) /\ PlaceRequest(t, g, m))
                    => last' = Error("place_fence", "Fence already exists")

FenceExistsAlways == [][FenceExistsStep]_vars

(***************************************************************************)
(* C9 (amended)  A place_fence by the turn holder that names a flag that   *)
(* is already true never succeeds: it fails with 'Fence already exists'    *)
(* while the session is not over and with 'Game is over' once it is; so no *)
(* wall appears twice in a move log.                                       *)
(***************************************************************************)
FenceExistsActiveStep ==
    (last = NoResponse /\ last'.op = "place_fence") =>
        \A t \in Threads : \A g \in DOMAIN games :
            HolderSteps(t, g) =>
                \A m \in MoveInputs :
                    (NamesSetFence(g, m) /\ PlaceRequest(t, g, m))
                    => /\ last' = Error("place_fence",
                                        IF games[g].game_over THEN "Game is over"
                                        ELSE "Fence already exists")
                       /\ UNCHANGED <<games, players, recordings>>

NoWallTwice ==
    \A g \in DOMAIN recordings :
        \A i, k \in 1..Len(recordings[g]) :
            i # k =>
                LET a == recordings[g][i]
                    b == recordings[g][k]
                IN  Wall(MinGridSize, <<a.x, a.y>>, a.orientation)
                        # Wall(MinGridSize, <<b.x, b.y>>, b.orientation)

FenceExistsLaw == [][FenceExistsActiveStep]_vars /\ []NoWallTwice

\* 'Fence already exists' has just been returned for the east side of cell
\* (0,0), which was set as the mirror of the west side of cell (1,0)
FenceExistsWitness ==
    /\ last = Error("place_fence", "Fence already exists")
    /\ \E g \in DOMAIN games :
          /\ games[g].grid[<<0, 0>>].east
          /\ ~games[g].grid[<<0, 0>>].north
          /\ ~games[g].grid[<<0, 0>>].south
          /\ ~games[g].grid[<<0, 0>>].west
          /\ \E k \in 1..Len(recordings[g]) :
                recordings[g][k].x = 1 /\ recordings[g][k].orientation = "west"

(***************************************************************************)
(* C10  A successful place_fence(x,y,orientation) sets the named flag of   *)
(* cell (x,y), the opposite flag of the neighbour on that side iff there   *)
(* is one, and no other flag; so the two flags of every wall shared by two *)
(* cells are always equal.                                                 *)
(***************************************************************************)
FrameStep ==
    \A g \in DOMAIN games :
        Placed(g) =>
            LET e == Logged(g)'
                wall == Wall(games[g].grid_size, <<e.x, e.y>>, e.orientation)
            IN  \A c \in DOMAIN games[g].grid, o \in OrientationSet :
                    games'[g].grid[c][o] =
                        IF <<c, o>> \in wall THEN TRUE ELSE games[g].grid[c][o]

SharedWallsAgree ==
    \A g \in DOMAIN games :
        \A c \in DOMAIN games[g].grid, o \in OrientationSet :
            \A n \in Neighbour(games[g].grid_size, c, o) :
                games[g].grid[c][o] = games[g].grid[n[1]][n[2]]

FrameLaw == [][FrameStep]_vars /\ []SharedWallsAgree

\* the south side of cell (0,0) has just been placed: the north flag of
\* cell (0,1) is set with it, and the north side of (0,0), at the border,
\* was placed before with no second flag
FrameWitness ==
    \E g \in DOMAIN games :
        /\ JustPlaced(g)
        /\ Logged(g).x = 0 /\ Logged(g).y = 0 /\ Logged(g).orientation = "south"
        /\ games[g].grid[<<0, 0>>].south
        /\ games[g].grid[<<0, 1>>].north
        /\ games[g].grid[<<0, 0>>].north
        /\ ~games[g].grid[<<1, 0>>].north

(***************************************************************************)
(* C11  End-game resolution: when a place_fence completes the grid and the *)
(* session becomes game over, winner is the id of the seated player with   *)
(* the strictly highest score if exactly one holds the maximum, and 'draw' *)
(* if two or more tie at the maximum.                                      *)
(***************************************************************************)
\* the seats of game whose score no other seat exceeds
TopSeats(game) ==
    {i \in 1..Len(game.players) :
        \A k \in 1..Len(game.players) : game.players[k].score <= game.players[i].score}

Resolved(game) ==
    IF Cardinality(TopSeats(game)) = 1
    THEN \E i \in TopSeats(game) : game.winner = game.players[i].id
    ELSE game.winner = Draw

ResolutionStep ==
    \A g \in DOMAIN games :
        (Placed(g) /\ ~games[g].game_over /\ games'[g].game_over)
            => /\ \A c \in DOMAIN games'[g].grid : AllFences(games'[g].grid[c])
               /\ Resolved(games'[g])

ResolutionLaw == [][ResolutionStep]_vars

\* the last wall has just been placed and two players tie at a positive score
ResolutionWitness ==
    \E g \in DOMAIN games :
        /\ JustPlaced(g)
        /\ games[g].game_over
        /\ games[g].winner = Draw
        /\ Cardinality(TopSeats(games[g])) = 2
        /\ \A i \in TopSeats(games[g]) : games[g].players[i].score > 0

(***************************************************************************)
(* C12  As claimed, for the Game class: after any successful place_fence   *)
(* the game is over with a resolved winner if and only if every cell has   *)
(* all four fences set, whether or not every cell has an owner; a fully    *)
(* fenced grid is never left not-over.                                     *)
(***************************************************************************)
FullyFenced(game) == \A c \in DOMAIN game.grid : AllFences(game.grid[c])

GameOverIffFenced ==
    (last.op = "place_fence" /\ last.status = "success")
        => LET game == games[ObjectId]
           IN  (game.game_over /\ game.winner # NoWinner) <=> FullyFenced(game)

(***************************************************************************)
(* C13  Game over is terminal: a session that is over stays over as long   *)
(* as it exists, no place_fence on it succeeds, and no step other than a   *)
(* leave or a join (so no move and no timeout sweep) changes anything in   *)
(* it: grid, owners, scores, current_player_index and turn clock stay as   *)
(* they were.                                                              *)
(***************************************************************************)
\* a step of handle_player_disconnect or join_game
RosterStep ==
    last = NoResponse /\ last'.op \in {"handle_player_disconnect", "join_game"}

TerminalStep ==
    \A g \in DOMAIN games :
        games[g].game_over =>
            /\ g \in DOMAIN games' => games'[g].game_over
            /\ ~Placed(g)
            /\ ~RosterStep => (g \in DOMAIN games' /\ games'[g] = games[g])

GameOverTerminal == [][TerminalStep]_vars

\* the grid is complete, the turn holder's clock has run out and the holder
\* has just been refused a move
GameOverWitness ==
    \E g \in DOMAIN games :
        /\ games[g].game_over
        /\ FullyFenced(games[g])
        /\ Len(games[g].players) >= 2
        /\ now - games[g].turn_start_time > InactivityTimeout
        /\ last = Error("place_fence", "Game is over")

(***************************************************************************)
(* C14  As claimed: no place_fence succeeds on a session whose number of   *)
(* seated players is below its capacity num_players.                       *)
(***************************************************************************)
MovesOnlyWhenFullStep ==
    \A g \in DOMAIN games :
        Placed(g) => Len(games[g].players) >= games[g].num_players

MovesOnlyWhenFull == [][MovesOnlyWhenFullStep]_vars

(***************************************************************************)
(* C15  As claimed, for the sessions that are over: once a session is over *)
(* no join_game on it succeeds.                                            *)
(***************************************************************************)
\* a join_game that succeeds on session g
JoinedStep(g) ==
    /\ last = NoResponse
    /\ last'.op = "join_game" /\ last'.status = "success"
    /\ g \in DOMAIN games'
    /\ Len(games'[g].players) = Len(games[g].players) + 1

JoinOnlyWhileJoiningStep ==
    \A g \in DOMAIN games : JoinedStep(g) => ~games[g].game_over

JoinOnlyWhileJoining == [][JoinOnlyWhileJoiningStep]_vars

(***************************************************************************)
(* C16  Roster invariant: a session never has more than num_players seated *)
(* players and no player id twice in its roster; a join_game on a full     *)
(* session fails with 'Game is full' and a join_game by a seated id fails, *)
(* and a join_game that fails changes no session, directory entry or log.  *)
(***************************************************************************)
RosterBounded ==
    \A g \in DOMAIN games :
        /\ Len(games[g].players) <= games[g].num_players
        /\ \A i, k \in 1..Len(games[g].players) :
              i # k => games[g].players[i].id # games[g].players[k].id

JoinRefusalStep ==
    (last = NoResponse /\ last'.op = "join_game") =>
        /\ last'.status = "error" => UNCHANGED <<games, players, recordings>>
        /\ \A t \in Threads : \A g \in DOMAIN games :
              (pc[t] = "recv" /\ pc'[t] = "send" /\ join_game(t, g)) =>
                  /\ Len(games[g].players) >= games[g].num_players
                        => last' = Error("join_game", "Game is full")
                  /\ Seated(games[g], t) => last'.status = "error"

RosterLaw == []RosterBounded /\ [][JoinRefusalStep]_vars

\* a third connection has just been refused a seat in a session of two
RosterWitness ==
    /\ last = Error("join_game", "Game is full")
    /\ \E g \in DOMAIN games : \E t \in Threads :
          /\ games[g].num_players = 2
          /\ Len(games[g].players) = 2
          /\ pc[t] = "send"
          /\ ~Seated(games[g], t)

(***************************************************************************)
(* C17  Forfeit: whenever a leave reduces a session's roster to exactly    *)
(* one seated player, the session is over and winner is the id of that     *)
(* remaining player, never 'draw'; a leave that leaves two or more seated  *)
(* does not end the session.                                               *)
(***************************************************************************)
\* handle_player_disconnect has removed a player from session g
LeftStep(g) ==
    /\ last = NoResponse
    /\ last'.op = "handle_player_disconnect"
    /\ g \in DOMAIN games'
    /\ Len(games'[g].players) = Len(games[g].players) - 1

ForfeitStep ==
    \A g \in DOMAIN games :
        LeftStep(g) =>
            IF Len(games'[g].players) = 1
            THEN /\ games'[g].game_over
                 /\ games'[g].winner = games'[g].players[1].id
                 /\ games'[g].winner # Draw
            ELSE games'[g].game_over = games[g].game_over

ForfeitLaw == [][ForfeitStep]_vars

\* the player left alone has won a session in which fences were placed,
\* with a score of zero
ForfeitWitness ==
    /\ last = Success("handle_player_disconnect", "Player left game")
    /\ \E g \in DOMAIN games :
          /\ Len(games[g].players) = 1
          /\ games[g].game_over
          /\ games[g].winner = games[g].players[1].id
          /\ games[g].players[1].score = 0
          /\ Len(recordings[g]) >= 1

(***************************************************************************)
(* C18  As claimed: a leave by the sole seated player of a session removes *)
(* the session from the registry: no leave_game of a sole seated player    *)
(* is left waiting, with the session still registered, for the lock that   *)
(* its own thread holds (a wait that never ends).                          *)
(***************************************************************************)
\* thread t is inside leave_game, at handle_player_disconnect's acquire
LeaveWaits(t) == pc[t] = "leave_acquire" /\ lock = t /\ inbox[t] # NoRequest

SoleLeaveRemovesSession ==
    \A t \in Threads :
        LeaveWaits(t) =>
            ~(/\ inbox[t][1] \in DOMAIN games
              /\ Len(games[inbox[t][1]].players) = 1
              /\ Seated(games[inbox[t][1]], t))

(***************************************************************************)
(* C19  As claimed: a leave for a player who is not seated in a session    *)
(* that still exists returns the error 'Player not in game': no leave_game *)
(* of such a player is left waiting for the lock that its own thread       *)
(* holds, never to return.                                                 *)
(***************************************************************************)
UnseatedLeaveReturns ==
    \A t \in Threads :
        LeaveWaits(t) =>
            ~(/\ inbox[t][1] \in DOMAIN games
              /\ ~Seated(games[inbox[t][1]], t))

(***************************************************************************)
(* C20  As claimed: when a connection has closed, the leave has been       *)
(* applied to every session in which its player was seated, so that the    *)
(* player is seated in no session of the registry.                         *)
(***************************************************************************)
ClosedPlayerSeatedNowhere ==
    \A t \in Threads :
        pc[t] = "closed" => \A g \in DOMAIN games : ~Seated(games[g], t)

(***************************************************************************)
(* C21  As claimed: a player's directory tally (wins + losses + draws) is  *)
(* incremented at most once for each session, so it never exceeds the      *)
(* number of sessions ever created (every session has a log, and logs are  *)
(* never deleted).                                                         *)
(***************************************************************************)
Tally(p) == players[p].wins + players[p].losses + players[p].draws

TallyOncePerSession ==
    \A p \in DOMAIN players : Tally(p) <= Cardinality(DOMAIN recordings)

(***************************************************************************)
(* C22  A create_game request whose grid_size is outside 2..10 or whose    *)
(* num_players is outside 2..4 fails and leaves the sessions, the move     *)
(* logs and the directory as they were.  A valid one adds exactly one      *)
(* session under an identifier no session ever had: its roster is the      *)
(* creator alone with score 0, the turn index is 0, no fence is set, no    *)
(* cell is owned, game_over is false and there is no winner; every other   *)
(* session is unchanged.                                                   *)
(***************************************************************************)
ValidCreate(grid_size, num_players) ==
    /\ grid_size \in MinGridSize..MaxGridSize
    /\ num_players \in MinPlayers..MaxPlayers

Pristine(game, t, grid_size, num_players) ==
    /\ game.grid_size = grid_size
    /\ game.num_players = num_players
    /\ game.players = <<[id |-> t, score |-> 0]>>
    /\ game.current_player_index = 0
    /\ DOMAIN game.grid = Cells(grid_size)
    /\ \A c \in DOMAIN game.grid :
          /\ \A o \in OrientationSet : ~game.grid[c][o]
          /\ game.grid[c].owner = NoOwner
    /\ ~game.game_over
    /\ game.winner = NoWinner

CreateStep ==
    \A t \in Threads : pc[t] = "recv" /\ pc'[t] = "send" /\ last'.op = "create_game" =>
        \A grid_size \in GridSizeInputs, num_players \in NumPlayersInputs,
           seed \in LandSeeds :
            create_game(t, grid_size, num_players, seed) =>
                IF ValidCreate(grid_size, num_players)
                THEN /\ last'.status = "success"
                     /\ \E g \in DOMAIN games' :
                           /\ g \notin DOMAIN games \cup DOMAIN recordings
                           /\ DOMAIN games' = DOMAIN games \cup {g}
                           /\ DOMAIN recordings' = DOMAIN recordings \cup {g}
                           /\ Pristine(games'[g], t, grid_size, num_players)
                           /\ recordings'[g] = <<>>
                     /\ \A h \in DOMAIN games : games'[h] = games[h]
                     /\ \A h \in DOMAIN recordings : recordings'[h] = recordings[h]
                     /\ DOMAIN players' = DOMAIN players \cup {t}
                     /\ \A p \in DOMAIN players : players'[p] = players[p]
                ELSE /\ last'.status = "error"
                     /\ games' = games
                     /\ recordings' = recordings
                     /\ players' = players

CreateLaw == [][CreateStep]_vars

CreateWitness ==
    /\ last.op = "create_game"
    /\ last.status = "success"
    /\ Cardinality(DOMAIN games) = 2

(***************************************************************************)
(* C23  As claimed: no message ends the per-connection handler.  A         *)
(* connection whose handler has taken up a message (its inbox holds the    *)
(* message until the response is returned) is never closing or closed: it  *)
(* answers and stays in its receive loop.                                  *)
(***************************************************************************)
HandlerSurvives ==
    \A t \in Threads : inbox[t] # NoRequest => pc[t] \notin {"closing", "closed"}

(***************************************************************************)
(* C25  As claimed: the session map, the move-log map and the directory    *)
(* are read and written only under the lock, so no handler is part-way     *)
(* through reading them while another thread changes them: as long as a    *)
(* connection is iterating the move-log map in list_recordings, no step    *)
(* changes any of the three.                                               *)
(***************************************************************************)
Reading(t) == pc[t] = "list_recordings"

ReadStep ==
    \A t \in Threads : Reading(t) /\ pc'[t] = pc[t] =>
        /\ games' = games
        /\ recordings' = recordings
        /\ players' = players

ReadsUnderLock == [][ReadStep]_vars

(***************************************************************************)
(* C24  As claimed: a request that targets one session never waits for a   *)
(* lock held by an operation on a different session.                       *)
(***************************************************************************)
CrossWaits(t) == pc[t] \in CrossHandlers

CrossHolds(u) == lock = u /\ pc[u] \in {"in_" \o h : h \in CrossHandlers}

CrossExclusive ==
    /\ \A t \in Threads : pc[t] \in {"in_" \o h : h \in CrossHandlers} <=> lock = t
    /\ lock = Free \/ lock \in Threads

CrossStep ==
    games' # games \/ recordings' # recordings \/ players' # players =>
        \E u \in Threads :
            /\ CrossHolds(u)
            /\ lock' = Free
            /\ \A g \in DOMAIN games \ {inbox[u][1]} :
                  g \in DOMAIN games' /\ games'[g] = games[g]
            /\ \A g \in DOMAIN recordings \ {inbox[u][1]} :
                  g \in DOMAIN recordings' /\ recordings'[g] = recordings[g]

CellMonotoneStep ==
    \A g \in DOMAIN games \cap DOMAIN games' :
        games'[g] # games[g] =>
            \A c \in DOMAIN games[g].grid :
                /\ c \in DOMAIN games'[g].grid
                /\ \A o \in OrientationSet :
                      games[g].grid[c][o] => games'[g].grid[c][o]
                /\ games[g].grid[c].owner # NoOwner =>
                      games'[g].grid[c].owner = games[g].grid[c].owner

CellMonotone == [][CellMonotoneStep]_vars

CellMonotoneWitness ==
    \E g \in DOMAIN games : \E c \in DOMAIN games[g].grid :
        /\ games[g].grid[c].owner # NoOwner
        /\ ~Seated(games[g], games[g].grid[c].owner)

(***************************************************************************)
(* C27  A cell that has an owner has all four of its fences set.           *)
(***************************************************************************)
OwnedCellsEnclosed ==
    \A g \in DOMAIN games : \A c \in DOMAIN games[g].grid :
        games[g].grid[c].owner # NoOwner => AllFences(games[g].grid[c])

OwnedCellWitness ==
    \E g \in DOMAIN games : \E c \in DOMAIN games[g].grid :
        /\ games[g].grid[c].owner # NoOwner
        /\ AllFences(games[g].grid[c])

(***************************************************************************)
(* C28  A pass of the inactivity sweep (the only step that changes a       *)
(* session while every thread stays where it is) adds and removes no       *)
(* session.  A session it changes was not over and its turn was older than *)
(* the limit; its turn index becomes (index + 1) modulo the number of      *)
(* seated players and its turn clock starts again at the current time;     *)
(* its grid with the owners, its roster with the scores, game_over and     *)
(* winner are as before.  The move logs and the directory are unchanged.   *)
(***************************************************************************)
SweepStep == pc' = pc /\ games' # games

TimeoutStep ==
    SweepStep =>
        /\ DOMAIN games' = DOMAIN games
        /\ recordings' = recordings
        /\ players' = players
        /\ \A g \in DOMAIN games :
              games'[g] # games[g] =>
                  /\ ~games[g].game_over
                  /\ now - games[g].turn_start_time > InactivityTimeout
                  /\ games'[g].current_player_index =
                        (games[g].current_player_index + 1) % Len(games[g].players)
                  /\ games'[g].turn_start_time = now
                  /\ games'[g].grid = games[g].grid
                  /\ games'[g].players = games[g].players
                  /\ games'[g].game_over = games[g].game_over
                  /\ games'[g].winner = games[g].winner
                  /\ games'[g].grid_size = games[g].grid_size
                  /\ games'[g].num_players = games[g].num_players

TimeoutLaw == [][TimeoutStep]_vars

TimeoutWitness ==
    \E g \in DOMAIN games :
        /\ ~games[g].game_over
        /\ Len(games[g].players) >= 2
        /\ games[g].current_player_index = 1
        /\ recordings[g] = <<>>
        /\ now > 0
        /\ games[g].turn_start_time = now

(***************************************************************************)
(* C30  As claimed: the turn clock starts when the join that fills the     *)
(* last seat succeeds.  A sweep that takes the turn from the first turn    *)
(* holder of a full session in which no move has been made comes no        *)
(* earlier than one full turn limit after the session's latest activity,   *)
(* which is that join (or a later sweep).                                  *)
(***************************************************************************)
FirstTurn(g) ==
    /\ Len(games[g].players) = games[g].num_players
    /\ games[g].current_player_index = 0
    /\ recordings[g] = <<>>

FirstTurnStep ==
    SweepStep =>
        \A g \in DOMAIN games :
            games'[g] # games[g] /\ FirstTurn(g) =>
                now - games[g].last_activity >= InactivityTimeout

FirstTurnGrace == [][FirstTurnStep]_vars

(***************************************************************************)
(* C29  As claimed: in a session that is not over, a turn that has lasted  *)
(* longer than the limit does not stay so for ever: the sweep moves the    *)
(* turn on and rearms the clock (or the holder moves, the session ends or  *)
(* it is removed).                                                         *)
(***************************************************************************)
Overdue(g) == g \in DOMAIN games /\ TimedOut(games[g], now)

TurnEventuallyAdvances ==
    \A g \in GameIds : Overdue(g) ~> ~Overdue(g)

(***************************************************************************)
(* C32  The move log of a session is append-only and exact.  No log is     *)
(* ever removed.  A step changes a log exactly when it is a successful     *)
(* place_fence on that session, and then the log is the old one with one   *)
(* entry added at its end: the actor, the position and the orientation of  *)
(* the request, and whether the named cell got its owner in this step.     *)
(* Rejected moves, joins, leaves and forced advances leave every log as it *)
(* was.                                                                    *)
(***************************************************************************)
PlacedBy(t, g, move) ==
    /\ PlaceRequest(t, g, move)
    /\ last'.status = "success"

LogStep ==
    /\ DOMAIN recordings \subseteq DOMAIN recordings'
    /\ recordings' # recordings =>
          \A g \in DOMAIN recordings :
              recordings'[g] # recordings[g] =>
                  \E t \in Threads, move \in WellFormedMoves :
                      /\ PlacedBy(t, g, move)
                      /\ recordings'[g] = Append(recordings[g],
                            [player_id |-> t, x |-> move[1][1], y |-> move[1][2],
                             orientation |-> move[2],
                             land_claimed |->
                                games'[g].grid[move[1]].owner # games[g].grid[move[1]].owner])
    /\ last = NoResponse /\ last'.op = "place_fence" /\ last'.status = "success" =>
          \E g \in DOMAIN recordings :
              /\ Len(recordings'[g]) = Len(recordings[g]) + 1
              /\ \A h \in DOMAIN recordings \ {g} : recordings'[h] = recordings[h]

LogAppendOnly == [][LogStep]_vars

LogWitness ==
    \E g \in DOMAIN games :
        /\ JustPlaced(g)
        /\ Len(recordings[g]) >= 2

(***************************************************************************)
(* C33  In every session of the registry current_player_index is a valid   *)
(* index into the roster: 0 <= current_player_index < number of seated     *)
(* players.                                                                *)
(***************************************************************************)
IndexValid ==
    \A g \in DOMAIN games :
        /\ 0 <= games[g].current_player_index
        /\ games[g].current_player_index < Len(games[g].players)

IndexWitness ==
    \E g \in DOMAIN games :
        /\ last.op = "handle_player_disconnect"
        /\ last.message = "Player left game"
        /\ Len(games[g].players) >= 2
        /\ recordings[g] # <<>>

(***************************************************************************)
(* C36  As claimed: when a player who does not hold the turn leaves a      *)
(* session that has two or more players afterwards, the player who holds   *)
(* the turn after the leave is the one who held it before.                 *)
(***************************************************************************)
HolderKeptStep ==
    \A g \in DOMAIN games :
        /\ LeftStep(g)
        /\ Len(games'[g].players) >= 2
        /\ CurrentPlayer(games[g]).id \in Ids(games'[g])
        => CurrentPlayer(games'[g]).id = CurrentPlayer(games[g]).id

HolderKept == [][HolderKeptStep]_vars

(***************************************************************************)
(* C37  As claimed: the winner of a session is decided once.  In every     *)
(* step, a session that has a winner (a player or a draw) and is still in  *)
(* the registry afterwards has the same winner afterwards.                 *)
(***************************************************************************)
WinnerKeptStep ==
    \A g \in DOMAIN games \cap DOMAIN games' :
        games[g].winner # NoWinner => games'[g].winner = games[g].winner

WinnerDecidedOnce == [][WinnerKeptStep]_vars

(***************************************************************************)
(* C38  As claimed: a win is added to a player's tally only in a step in   *)
(* which a session becomes GameOver with that player as its winner.        *)
(***************************************************************************)
Won(p) ==
    \E g \in DOMAIN games \cap DOMAIN games' :
        /\ ~games[g].game_over
        /\ games'[g].game_over
        /\ games'[g].winner = p

WinStep ==
    \A p \in DOMAIN players :
        players'[p].wins > players[p].wins => Won(p)

WinsOnlyForWinners == [][WinStep]_vars

(***************************************************************************)
(* C39  Bounded termination.  On an N x N grid the move log has one entry  *)
(* for every wall that is set (each successful place_fence sets exactly    *)
(* one wall that was not set), so it has at most 2N(N+1) entries; the grid *)
(* is fully fenced exactly when the log has 2N(N+1) entries, and the       *)
(* session is then GameOver.                                               *)
(***************************************************************************)
WallCount(size) == 2 * size * (size + 1)

SetWalls(game) ==
    {Wall(game.grid_size, f[1], f[2]) : f \in SetFlags(game.grid)}

BoundedTermination ==
    \A g \in DOMAIN games :
        /\ Len(recordings[g]) = Cardinality(SetWalls(games[g]))
        /\ Len(recordings[g]) <= WallCount(games[g].grid_size)
        /\ FullyFenced(games[g]) <=>
              Len(recordings[g]) = WallCount(games[g].grid_size)
        /\ Len(recordings[g]) = WallCount(games[g].grid_size) => games[g].game_over

BoundedWitness ==
    \E g \in DOMAIN games :
        /\ JustPlaced(g)
        /\ Len(recordings[g]) = WallCount(games[g].grid_size)
        /\ games[g].game_over

Idle(g) ==
    /\ g \in DOMAIN games
    /\ games[g].game_over
    /\ now - games[g].last_activity > InactivityTimeout

IdleSessionEvicted ==
    \A g \in GameIds : Idle(g) ~> ~Idle(g)

(***************************************************************************)
(* C34  As claimed: a stale turn timer is a no-op.  The on_timeout         *)
(* callback is called only by the timer the Game object currently holds,   *)
(* while the timer is active and has not been cancelled: never by a timer  *)
(* that cancel_turn_timer or a later start_turn_timer has cancelled.       *)
(***************************************************************************)
CallbackStep ==
    \A k \in Threads :
        pc[k] = "call" /\ pc'[k] = "done" =>
            /\ ~inbox[k][2]
            /\ games[ObjectId].timer_thread = k
            /\ games[ObjectId].timer_active

StaleTimerSilent == [][CallbackStep]_vars

(***************************************************************************)
(* C35  As claimed: the game_state a success response carries is the       *)
(* session as it was when the operation completed under the lock.  What    *)
(* is encoded when the response is sent equals the session's state at the  *)
(* handler's return: no operation served between the return and the send   *)
(* shows in it.                                                            *)
(***************************************************************************)
SnapshotStep ==
    \A t \in Threads :
        pc[t] = "send" /\ pc'[t] = "recv" /\ inbox[t] # NoRequest =>
            encoded_game_state(t) = inbox[t][2]

ResponseIsSnapshot == [][SnapshotStep]_vars

=============================================================================
